---- MODULE Spec2Model ----
(***************************************************************************)
(* Verification model of the light-curve provider of src/src/utils/data.py *)
(* (class LCData, collate_fn).                                             *)
(*                                                                         *)
(* Numbers.  Flux values, depths, noise estimates and labels are floats in *)
(* the program.  They are modelled as exact rationals <<n, d>> (d > 0, in  *)
(* lowest terms) plus one NaN value <<0, 0>>; rounding is not modelled.    *)
(* Probabilities and the uniform draws of np.random.rand() are integers in *)
(* units of 1e-8 (ProbOne units make 1.0), so that the 1e-8 tolerance of   *)
(* the eclipsing-binary interval is one unit.                              *)
(*                                                                         *)
(* Python's None is the record None; a present value v is Some(v).         *)
(* A sample (the dict x) is a record whose DOMAIN is the dict's key set.   *)
(***************************************************************************)
EXTENDS Integers, Sequences, FiniteSets, TLC

\* ------------------------------------------------------------------ bounds
\* number of light-curve files the glob finds (len(self.lc_file_list))
NumFiles == 5
\* longest base flux / signal of the stand-alone runs of _inject_transit
MaxBaseLen == 3
MaxSigLen == 3
\* longest batch handed to collate_fn
MaxBatch == 3
\* longest base flux of the runs of _inject_transit on gapped fluxes
MaxGappedLen == 6
\* the iterations of the placement loop that are counted (the count stays at
\* MaxTries from then on; the loop itself has no limit)
MaxTries == 2
\* the files of a collection handed to a stand-alone call of _add_lc_noise
MaxColl == 2
\* the points of a planet flux handed to a stand-alone _extract_single_transit
MaxPlLen == 4
\* largest star id of the source files the three providers scan on their own
MaxTic == 7

\* ------------------------------------------------------- program constants
\* num_bad > 10 (data.py:412)
MaxBad == 10
\* pl_snr > 15 (data.py:404)
MaxSnr == 15
\* pl_snr = 100.0 when the star has no cdpp entry (data.py:399)
AssumedSnr == 100
\* pl_dur > 4 drops a planet record (data.py:342)
MaxDur == 4
\* 1.0 in units of 1e-8; the 1e-8 of data.py:205 is one unit
ProbOne == 100000000
\* np.isclose(median, 0): |median| <= 1e-8 (data.py:500)
CloseDen == 100000000

\* ---------------------------------------------------------------- options
None == [some |-> FALSE]
Some(v) == [some |-> TRUE, v |-> v]

\* ------------------------------------------------------- exact arithmetic
Abs(n) == IF n < 0 THEN -n ELSE n

RECURSIVE GCD(_, _)
GCD(a, b) == IF b = 0 THEN a ELSE GCD(b, a % b)

NaN == <<0, 0>>
IsNaN(a) == a[2] = 0

Rat(n, d) ==
    LET s == IF d < 0 THEN -1 ELSE 1
        g == GCD(Abs(n), Abs(d))
    IN  IF d = 0 THEN NaN ELSE <<(s * n) \div g, (s * d) \div g>>

R(n) == <<n, 1>>

\* a * b of two floats; NaN propagates
RMul(a, b) == IF IsNaN(a) \/ IsNaN(b) THEN NaN ELSE Rat(a[1] * b[1], a[2] * b[2])
\* a / b; x / 0 is not used on a zero divisor by the callers below
RDiv(a, b) == IF IsNaN(a) \/ IsNaN(b) THEN NaN ELSE Rat(a[1] * b[2], a[2] * b[1])
RAdd(a, b) == IF IsNaN(a) \/ IsNaN(b) THEN NaN ELSE Rat(a[1] * b[2] + b[1] * a[2], a[2] * b[2])
RAbs(a) == <<Abs(a[1]), a[2]>>
\* comparisons with NaN are False, as for floats
RLt(a, b) == ~IsNaN(a) /\ ~IsNaN(b) /\ a[1] * b[2] < b[1] * a[2]
RLe(a, b) == ~IsNaN(a) /\ ~IsNaN(b) /\ a[1] * b[2] <= b[1] * a[2]

\* ------------------------------------------------------ sequences, dicts
\* Python's s[:k] for a list of length Len(s) (k may be negative)
SliceTo(s, k) ==
    LET n == Len(s)
        e == IF k < 0 THEN (IF n + k < 0 THEN 0 ELSE n + k) ELSE (IF k > n THEN n ELSE k)
    IN  SubSeq(s, 1, e)

\* x[k] = v on a dict
Put(x, k, v) == [f \in (DOMAIN x) \cup {k} |-> IF f = k THEN v ELSE x[f]]

RECURSIVE PutAll(_, _)
PutAll(x, kvs) == IF kvs = <<>> THEN x ELSE PutAll(Put(x, kvs[1][1], kvs[1][2]), Tail(kvs))

Has(x, k) == k \in DOMAIN x

\* np.nanmedian of a flux: the median of its non-NaN values, NaN when there are none
NanMedian(flux) ==
    LET I == {i \in 1..Len(flux) : ~IsNaN(flux[i])}
        n == Cardinality(I)
        \* the value of rank k (0-based) among the non-NaN values
        Kth(k) == LET i == CHOOSE i \in I :
                              /\ Cardinality({j \in I : RLt(flux[j], flux[i])}) <= k
                              /\ Cardinality({j \in I : RLe(flux[j], flux[i])}) > k
                  IN  flux[i]
    IN  IF n = 0 THEN NaN
        ELSE IF n % 2 = 1 THEN Kth(n \div 2)
        ELSE RDiv(RAdd(Kth(n \div 2 - 1), Kth(n \div 2)), R(2))

\* the mutant of IsCloseZero: no median is taken as zero
IsCloseZeroNever(m) == FALSE

\* np.isclose(median, 0) with the default tolerances: |median| <= 1e-8
IsCloseZero(m) == ~IsNaN(m) /\ Abs(m[1]) * CloseDen <= m[2]

\* ------------------------------------------------------------ the world
\* What the provider finds on disk.  File i of lc_file_list is one of six
\* kinds (i % 6):
\*   0  zero-label star, noise estimates present, one gap in the flux
\*   1  corrupt file (the reader returns flux None); its star has a zero label
\*   2  star with a positive label (1/2)
\*   3  star with no row in the label table
\*   4  zero-label star without noise estimates, negative flux median
\*   5  star with a zero label in sector 1 and the file (label 3/4) in sector 2
Meta(tic, sec) ==
    [tic |-> tic, sec |-> sec, cam |-> 1, chi |-> 2, tessmag |-> 9,
     teff |-> 50, srad |-> 1, binfac |-> 7]

Cdpp(a, b, c) == [cdpp05 |-> a, cdpp1 |-> b, cdpp2 |-> c]

FileTic(i) == 4 + (i % 6) + 100 * (i \div 6)

\* read_lc_csv(self.lc_file_list[i]): a fresh dict on every call
read_lc_csv(i) ==
    LET k == i % 6
        t == FileTic(i)
    IN  CASE k = 0 -> [flux |-> Some(<<R(2), R(2), R(4), NaN, R(4)>>)]
                          @@ Meta(t, 1) @@ Cdpp(1, 2, 4)
          [] k = 1 -> [flux |-> None]
          [] k = 2 -> [flux |-> Some(<<R(1), Rat(1, 2), R(1)>>)]
                          @@ Meta(t, 1) @@ Cdpp(1, 2, 4)
          [] k = 3 -> [flux |-> Some(<<R(1), R(1), R(1)>>)]
                          @@ Meta(t, 1) @@ Cdpp(1, 2, 4)
          [] k = 4 -> [flux |-> Some(<<R(-2), R(-4), R(-2)>>)] @@ Meta(t, 1)
          [] OTHER -> [flux |-> Some(<<R(1), R(2), R(1)>>)]
                          @@ Meta(t, 2) @@ Cdpp(1, 2, 4)

\* the rows of self.labels_df (simulated subjects already removed)
LabelRow(tic, sec, maxdb) ==
    [TIC_ID |-> tic, sector |-> sec, maxdb |-> maxdb,
     TOI |-> 0, TCE |-> 0, PHT_ctc |-> 0, PHT_ctoi |-> 0]

\* The summary files of the sectors hold the rows of every star labelled there:
\* of the NumFiles files a provider of the first sector lists, and of the two
\* files after them.  The stars of the files 0 to 5 have at most one row per
\* sector; the star of file 6 is entered twice in the summary file of its sector.
labels_df ==
    UNION {LET k == i % 6
               t == FileTic(i)
           IN  CASE k = 0 /\ i \div 6 = 1 ->
                        {LabelRow(t, 1, R(0)), LabelRow(t, 1, Rat(1, 2))}
                 [] k \in {0, 1, 4} -> {LabelRow(t, 1, R(0))}
                 [] k = 2 -> {LabelRow(t, 1, Rat(1, 2))}
                 [] k = 3 -> {}
                 [] OTHER -> {LabelRow(t, 1, R(0)), LabelRow(t, 2, Rat(3, 4))}
           : i \in 0..(NumFiles + 1)}

\* self.zero_tics: the stars with a zero label in some sector
zero_tics == {r.TIC_ID : r \in {q \in labels_df : q.maxdb = R(0)}}

\* the planet files and their rows of the metadata table
PlanetFiles ==
    << [tic_id |-> 8,  depth |-> R(6),  duration |-> R(1), period |-> R(3),
        flux |-> <<R(1), R(1), Rat(1, 2), R(1), R(1)>>],
       [tic_id |-> 12, depth |-> R(80), duration |-> R(2), period |-> R(5),
        flux |-> <<R(1), Rat(3, 4), R(1)>>],
       [tic_id |-> 16, depth |-> R(6),  duration |-> R(5), period |-> R(9),
        flux |-> <<R(1), Rat(1, 2), R(1)>>],
       [tic_id |-> 20, depth |-> R(6),  duration |-> R(1), period |-> R(3),
        flux |-> <<>>],
       [tic_id |-> 24, depth |-> R(1),  duration |-> R(2), period |-> R(7),
        flux |-> <<R(1), Rat(1, 4), R(1)>>],
       [tic_id |-> 9,  depth |-> R(6),  duration |-> Rat(1, 2), period |-> R(3),
        flux |-> <<R(1), Rat(1, 2), R(1)>>],
       [tic_id |-> 10, depth |-> R(6),  duration |-> R(1), period |-> R(3),
        flux |-> <<R(1), Rat(1, 2), R(1)>>],
       [tic_id |-> 11, depth |-> R(6),  duration |-> R(1), period |-> R(3),
        flux |-> <<Rat(1, 2), R(1)>>] >>

\* the eclipsing-binary files and their rows of the metadata table
EbFiles ==
    << [tic_id |-> 4, eb_prim_depth |-> R(3), eb_sec_depth |-> R(1),
        eb_period |-> R(2), flux |-> <<R(1), Rat(1, 2)>>],
       [tic_id |-> 28, eb_prim_depth |-> R(3), eb_sec_depth |-> R(1),
        eb_period |-> R(2), flux |-> <<>>],
       [tic_id |-> 5, eb_prim_depth |-> R(3), eb_sec_depth |-> R(1),
        eb_period |-> R(2), flux |-> <<R(1), Rat(1, 2)>>],
       [tic_id |-> 6, eb_prim_depth |-> R(3), eb_sec_depth |-> R(1),
        eb_period |-> R(2), flux |-> <<R(1), Rat(1, 2)>>] >>

\* -------------------------------------------------- synthetic source stores
\* "train" in self.data_split, elif "val" ..., elif "test" ...; None otherwise
\* A split name is the sequence of its words ("train_debug" is <<"train", "debug">>).
\* Mentions(word): the split words that occur in the word as substrings.
Mentions(word) ==
    CASE word \in {"train", "val", "test"} -> {word}
      [] word = "retrain" -> {"train"}
      [] word = "eval" -> {"val"}
      [] word = "latest" -> {"test"}
      [] OTHER -> {}

\* the substring test  "train" in self.data_split : no split word has an
\* underscore, so it occurs in the name when it occurs in one of the words
Contains(data_split, w) == \E i \in 1..Len(data_split) : w \in Mentions(data_split[i])

\* the mutant of IsPlanetInDataSplit: validation also takes residue 0
IsPlanetInDataSplitOverlap(data_split, tic_id) ==
    IF Contains(data_split, "train") THEN tic_id % 4 = 0
    ELSE IF Contains(data_split, "val") THEN tic_id % 4 <= 1
    ELSE IF Contains(data_split, "test") THEN (tic_id % 4 = 2) \/ (tic_id % 4 = 3)
    ELSE FALSE

IsPlanetInDataSplit(data_split, tic_id) ==
    IF Contains(data_split, "train") THEN tic_id % 4 = 0
    ELSE IF Contains(data_split, "val") THEN tic_id % 4 = 1
    ELSE IF Contains(data_split, "test") THEN (tic_id % 4 = 2) \/ (tic_id % 4 = 3)
    ELSE FALSE

\* np.argmax of a boolean array, 0-based: the first True, 0 when there is none
ArgMaxBool(b) ==
    LET T == {i \in 1..Len(b) : b[i]}
    IN  IF T = {} THEN 0 ELSE (CHOOSE i \in T : \A j \in T : i <= j) - 1

\* Python's s[a:b] for 0 <= a and 0 <= b
Slice(s, a, b) ==
    LET e == IF b > Len(s) THEN Len(s) ELSE b
    IN  IF a >= e THEN <<>> ELSE SubSeq(s, a + 1, e)

ExtractSingleTransit(x) ==
    LET start_idx == ArgMaxBool([i \in 1..Len(x) |-> RLt(x[i], R(1))])
        tail == Slice(x, start_idx, Len(x))
        length == ArgMaxBool([i \in 1..Len(tail) |-> tail[i] = R(1)])
    IN  IF start_idx > 0
        THEN Slice(x, start_idx - 1, start_idx + length + 1)
        ELSE Slice(x, start_idx, start_idx + length + 1)

\* the mutant of PlRecord: the duration test of line 342 is dropped
PlRecordAnyDuration(data_split, single_transit_only, f) ==
    LET pl_flux == IF single_transit_only THEN ExtractSingleTransit(f.flux) ELSE f.flux
    IN  IF ~IsPlanetInDataSplit(data_split, f.tic_id) THEN None
        ELSE IF Len(f.flux) = 0 THEN None
        ELSE IF single_transit_only /\ Len(pl_flux) = 0 THEN None
        ELSE Some([flux |-> pl_flux, tic_id |-> f.tic_id, depth |-> f.depth,
                   duration |-> f.duration, period |-> f.period])

\* the loop body of _get_pl_data for one file: the record stored, or None
PlRecord(data_split, single_transit_only, f) ==
    LET pl_flux == IF single_transit_only THEN ExtractSingleTransit(f.flux) ELSE f.flux
    IN  IF ~IsPlanetInDataSplit(data_split, f.tic_id) THEN None
        ELSE IF Len(f.flux) = 0 THEN None
        ELSE IF single_transit_only /\ Len(pl_flux) = 0 THEN None
        ELSE IF RLt(R(MaxDur), f.duration) THEN None
        ELSE Some([flux |-> pl_flux, tic_id |-> f.tic_id, depth |-> f.depth,
                   duration |-> f.duration, period |-> f.period])

RECURSIVE Kept(_)
Kept(recs) ==
    IF recs = <<>> THEN <<>>
    ELSE IF recs[1].some THEN <<recs[1].v>> \o Kept(Tail(recs))
    ELSE Kept(Tail(recs))

\* self.pl_data, as the sequence pl_data[0], pl_data[1], ...
GetPlData(data_split, single_transit_only) ==
    Kept([j \in 1..Len(PlanetFiles) |->
            PlRecord(data_split, single_transit_only, PlanetFiles[j])])

EbRecord(data_split, f) ==
    IF ~IsPlanetInDataSplit(data_split, f.tic_id) THEN None
    ELSE IF Len(f.flux) = 0 THEN None
    ELSE Some([flux |-> f.flux, tic_id |-> f.tic_id, eb_prim_depth |-> f.eb_prim_depth,
               eb_sec_depth |-> f.eb_sec_depth, eb_period |-> f.eb_period])

\* self.eb_data
GetEbData(data_split) ==
    Kept([j \in 1..Len(EbFiles) |-> EbRecord(data_split, EbFiles[j])])

\* ------------------------------------------------------- _inject_transit
\* np.random.randint(low, high): the draws low .. high-1; empty means ValueError
RandInt(low, high) == low..(high - 1)

\* lines 457-458: a signal not shorter than the base is cut to len(base) - 1
Truncated(base_flux, injected_flux) ==
    IF Len(injected_flux) >= Len(base_flux)
    THEN SliceTo(injected_flux, Len(base_flux) - 1)
    ELSE injected_flux

\* the mutant of MissingData: no window is refused
MissingDataNever(base_flux, start_idx, injected_flux) == FALSE

\* the mutant of MissingData: the limit is one half
MissingDataAboveHalf(base_flux, start_idx, injected_flux) ==
    LET n == Len(injected_flux)
        gaps == Cardinality({i \in 1..n : IsNaN(base_flux[start_idx + i])})
    IN  2 * gaps > n

\* line 468: more than 20% of the window is NaN (count / len > 0.2)
MissingData(base_flux, start_idx, injected_flux) ==
    LET n == Len(injected_flux)
        gaps == Cardinality({i \in 1..n : IsNaN(base_flux[start_idx + i])})
    IN  5 * gaps > n

\* the mutants of MulWindow: the product is inserted / the signal overwrites
MulWindowInsert(base_flux, start_idx, injected_flux) ==
    SubSeq(base_flux, 1, start_idx)
      \o [i \in 1..Len(injected_flux) |-> RMul(base_flux[start_idx + i], injected_flux[i])]
      \o SubSeq(base_flux, start_idx + 1, Len(base_flux))

MulWindowOverwrite(base_flux, start_idx, injected_flux) ==
    [i \in 1..Len(base_flux) |->
        IF start_idx < i /\ i <= start_idx + Len(injected_flux)
        THEN injected_flux[i - start_idx] ELSE base_flux[i]]

\* line 472: base_flux[start:start+len(inj)] = base_flux[start:start+len(inj)] * inj
MulWindow(base_flux, start_idx, injected_flux) ==
    [i \in 1..Len(base_flux) |->
        IF start_idx < i /\ i <= start_idx + Len(injected_flux)
        THEN RMul(base_flux[i], injected_flux[i - start_idx]) ELSE base_flux[i]]

\* What one pass over lines 461-472 can do, for a present base flux.  With
\* single_transit the pass is one iteration of the placement loop: it raises
\* (ValueError of randint on an empty range, ZeroDivisionError of the gap
\* fraction of an empty signal), draws again ("retry") or returns ("ok").
InjectPass(base_flux, injected_flux, single_transit) ==
    LET inj == Truncated(base_flux, injected_flux)
        starts == RandInt(0, Len(base_flux) - Len(inj))
    IN  IF starts = {} THEN {[kind |-> "raise"]}
        ELSE IF single_transit /\ Len(inj) = 0 THEN {[kind |-> "raise"]}
        ELSE {IF single_transit /\ MissingData(base_flux, s, inj)
              THEN [kind |-> "retry"]
              ELSE [kind |-> "ok", start_idx |-> s, flux |-> MulWindow(base_flux, s, inj)]
              : s \in starts}

\* ------------------------------------------------------------ collate_fn
\* torch's default_collate: batch[0] of an empty list raises IndexError;
\* otherwise one entry per pair is stacked
DefaultCollate(batch) ==
    IF batch = <<>> THEN [kind |-> "raise"] ELSE [kind |-> "ok", batch |-> batch]

FluxPresent(p) == p[1].flux # None
LabelPresent(p) == p[2] # None

collate_fn(batch) ==
    DefaultCollate(SelectSeq(SelectSeq(batch, FluxPresent), LabelPresent))

\* ------------------------------------------------------------- the state
VARIABLES
    config,         \* the constructor's arguments (self.synthetic_prob, ...)
    pl_data,        \* self.pl_data: Some(sequence of records), None when not loaded
    eb_data,        \* self.eb_data, likewise
    cache,          \* self.cache: index -> <<x, y>>
    filling_cache,  \* self.filling_cache
    fill_i,         \* the loop variable i of the constructor's cache fill
    pc,             \* where the running __getitem__ is: "idle" (no call), "snr",
                    \* "place", "noise", "ret" (returning), "raised" (exception)
    cur,            \* the frame of the running __getitem__ call
    inj,            \* a stand-alone call of _inject_transit
    col,            \* a stand-alone call of collate_fn
    stores,         \* the synthetic source stores of the three providers of
                    \* get_data_loaders, built on their own
    twin,           \* a second provider run side by side with the first on the
                    \* same random stream
    net,            \* a network of nets.py under construction
    mix,            \* a stand-alone call of _add_lc_noise
    ext             \* a stand-alone call of _extract_single_transit

vars == <<config, pl_data, eb_data, cache, filling_cache, fill_i, pc, cur, inj, col, stores, twin, net, mix, ext>>

provider_vars == <<config, pl_data, eb_data, cache, filling_cache, fill_i, pc, cur>>

Quarter == ProbOne \div 4
Half == ProbOne \div 2

\* the values np.random.rand() is drawn from: points of [0, 1) inside, on and next
\* to the interval ends the configured probabilities (0, 1/2, 1) give
RandDraws == {0, Quarter, Half, Half + 1, 3 * Quarter}

\* ----------------------------------------------------------- the transform
\* The pipeline's last stages (ImputeNans("zero"), Cutoff(length)): gaps become 0
\* and the flux is cut or zero-padded to CutoffLen points.
CutoffLen == 4

Transform(flux) ==
    [i \in 1..CutoffLen |->
        IF i > Len(flux) THEN R(0) ELSE IF IsNaN(flux[i]) THEN R(0) ELSE flux[i]]

\* ------------------------------------------------------------ __getitem__
\* x["flux"] is None
FluxIsNone(x) == x.flux = None

Stage(f, s) == [f EXCEPT !.stages = @ \cup {s}]

\* the mutant of LabelJoin: a sample without a row gets the label 0.0
LabelJoinDefaultZero(x) ==
    LET y_row == {r \in labels_df : r.TIC_ID = x.tic /\ r.sector = x.sec}
        row == CHOOSE r \in y_row : TRUE
    IN  IF Cardinality(y_row) = 1
        THEN <<PutAll(x, << <<"toi", row.TOI>>, <<"tce", row.TCE>>,
                            <<"ctc", row.PHT_ctc>>, <<"ctoi", row.PHT_ctoi>> >>),
               Some(row.maxdb)>>
        ELSE <<x, Some(R(0))>>

\* the mutant of LabelJoin: of several matching rows the one of the lowest score
\* is taken
LabelJoinFirstRow(x) ==
    LET y_row == {r \in labels_df : r.TIC_ID = x.tic /\ r.sector = x.sec}
        row == CHOOSE r \in y_row : \A q \in y_row : RLe(r.maxdb, q.maxdb)
    IN  IF y_row # {}
        THEN <<PutAll(x, << <<"toi", row.TOI>>, <<"tce", row.TCE>>,
                            <<"ctc", row.PHT_ctc>>, <<"ctoi", row.PHT_ctoi>> >>),
               Some(row.maxdb)>>
        ELSE <<x, None>>

\* lines 185-193: the label join; the dict with the row's identifiers, and y
LabelJoin(x) ==
    LET y_row == {r \in labels_df : r.TIC_ID = x.tic /\ r.sector = x.sec}
        row == CHOOSE r \in y_row : TRUE
    IN  IF Cardinality(y_row) = 1
        THEN <<PutAll(x, << <<"toi", row.TOI>>, <<"tce", row.TCE>>,
                            <<"ctc", row.PHT_ctc>>, <<"ctoi", row.PHT_ctoi>> >>),
               Some(row.maxdb)>>
        ELSE <<x, None>>

\* the mutant of CachedPair: the entry of some index is taken, whatever idx is
CachedPairOfAny(idx) == cache[CHOOSE i \in DOMAIN cache : TRUE]

\* line 156: self.cache[idx]
CachedPair(idx) == cache[idx]

\* the mutants of FilteredOut: the zero-label-only filter is dropped / drops all
FilteredOutNever(x) == FALSE

FilteredOutAlways(x) == TRUE

\* line 170: (self.vol_negs_only) and (x["tic"] not in self.zero_tics)
FilteredOut(x) == config.vol_negs_only /\ x.tic \notin zero_tics

\* if self.store_cache: self.cache[idx] = e
StoreEntry(idx, e) == IF config.store_cache THEN (idx :> e) @@ cache ELSE cache

\* the mutant of StoreFailure: an unusable index is not cached
StoreFailureSkipped(idx, x) == cache

\* lines 165-166 and 171-172: self.cache[idx] = (x, None)
StoreFailure(idx, x) == StoreEntry(idx, <<x, None>>)

\* lines 155-197: resolve index idx from the cache or from its file.
\* early: the call returns (x, None) at line 167 or 173.
Resolve(idx) ==
    IF idx \in DOMAIN cache
    THEN [hit |-> TRUE, early |-> FALSE, x |-> CachedPair(idx)[1], y |-> CachedPair(idx)[2],
          cache |-> cache]
    ELSE LET x == read_lc_csv(idx)
         IN  IF FluxIsNone(x)
             THEN [hit |-> FALSE, early |-> TRUE, x |-> x, y |-> None,
                   cache |-> StoreFailure(idx, x)]
             ELSE IF FilteredOut(x)
             THEN [hit |-> FALSE, early |-> TRUE, x |-> x, y |-> None,
                   cache |-> StoreFailure(idx, x)]
             ELSE LET xy == LabelJoin(x)
                  IN  [hit |-> FALSE, early |-> FALSE, x |-> xy[1], y |-> xy[2],
                       cache |-> StoreEntry(idx, xy)]

\* the mutant of MarkReal: line 217 (x["class"] = "real") is dropped
MarkRealNoTag(x) ==
    PutAll(x, << <<"tic_inj", -1>>, <<"depth", R(-1)>>, <<"duration", R(-1)>>,
                 <<"period", R(-1)>>, <<"snr", R(-1)>>, <<"eb_prim_depth", R(-1)>>,
                 <<"eb_sec_depth", R(-1)>>, <<"eb_period", R(-1)>> >>)

\* lines 209-217
MarkReal(x) ==
    PutAll(x, << <<"tic_inj", -1>>, <<"depth", R(-1)>>, <<"duration", R(-1)>>,
                 <<"period", R(-1)>>, <<"snr", R(-1)>>, <<"eb_prim_depth", R(-1)>>,
                 <<"eb_sec_depth", R(-1)>>, <<"eb_period", R(-1)>>,
                 <<"class", "real">> >>)

\* the mutant of MarkEb: lines 292-295 are dropped and snr takes the primary depth
MarkEbWithSnr(x, eb_inj) ==
    PutAll(x, << <<"tic_inj", eb_inj.tic_id>>, <<"eb_prim_depth", eb_inj.eb_prim_depth>>,
                 <<"eb_sec_depth", eb_inj.eb_sec_depth>>, <<"eb_period", eb_inj.eb_period>>,
                 <<"depth", eb_inj.eb_prim_depth>>, <<"duration", R(-1)>>,
                 <<"period", R(-1)>>, <<"snr", eb_inj.eb_prim_depth>>,
                 <<"class", "eb">> >>)

\* lines 288-296
MarkEb(x, eb_inj) ==
    PutAll(x, << <<"tic_inj", eb_inj.tic_id>>, <<"eb_prim_depth", eb_inj.eb_prim_depth>>,
                 <<"eb_sec_depth", eb_inj.eb_sec_depth>>, <<"eb_period", eb_inj.eb_period>>,
                 <<"depth", R(-1)>>, <<"duration", R(-1)>>, <<"period", R(-1)>>,
                 <<"snr", R(-1)>>, <<"class", "eb">> >>)

\* lines 418-426
MarkPlanet(x, pl_inj, pl_snr) ==
    PutAll(x, << <<"tic_inj", pl_inj.tic_id>>, <<"depth", pl_inj.depth>>,
                 <<"duration", pl_inj.duration>>, <<"period", pl_inj.period>>,
                 <<"snr", pl_snr>>, <<"eb_prim_depth", R(-1)>>,
                 <<"eb_sec_depth", R(-1)>>, <<"eb_period", R(-1)>>,
                 <<"class", "synth_planet">> >>)

\* lines 234-239: the transform, then return x, y
Finish(f) ==
    IF config.transform
    THEN IF FluxIsNone(f.x) THEN <<"raised", Stage(f, "transform")>>
         ELSE <<"ret", Stage([f EXCEPT !.x.flux = Some(Transform(f.x.flux.v))], "transform")>>
    ELSE <<"ret", f>>

\* the mutants of InjectionFailed: the flux-is-None test of line 220 is dropped /
\* is made in the fill mode only
InjectionFailedNever(x) == FALSE

InjectionFailedWhenFilling(x) == FluxIsNone(x) /\ filling_cache

\* line 220: x["flux"] is None after the synthetic decision
InjectionFailed(x) == FluxIsNone(x)

\* the mutant of SkipNoise: the fill mode is not looked at
SkipNoiseNever == FALSE

\* line 227: (not self.filling_cache) fails, so np.random.rand() is not called
SkipNoise == filling_cache

\* the mutant of AfterDecision: the noise number comes from a source the seed does
\* not govern (it is not among the draws of the random stream)
AfterDecisionUnseeded(f) ==
    IF InjectionFailed(f.x) THEN {<<"ret", [f EXCEPT !.y = None]>>}
    ELSE IF SkipNoise THEN {Finish([f EXCEPT !.x = Put(@, "tic_noise", -1)])}
    ELSE {LET g == Stage(f, "noise_draw")
          IN  IF r2 < config.lc_noise_prob
              THEN <<"noise", g>>
              ELSE Finish([g EXCEPT !.x = Put(@, "tic_noise", -1)])
          : r2 \in RandDraws}

\* lines 219-239, from the end of the synthetic decision: the set of <<pc, frame>>
\* the call can reach next
AfterDecision(f) ==
    IF InjectionFailed(f.x) THEN {<<"ret", [f EXCEPT !.y = None]>>}
    ELSE IF SkipNoise THEN {Finish([f EXCEPT !.x = Put(@, "tic_noise", -1)])}
    ELSE {LET g == Stage([f EXCEPT !.noise_num = r2], "noise_draw")
          IN  IF r2 < config.lc_noise_prob
              THEN <<"noise", g>>
              ELSE Finish([g EXCEPT !.x = Put(@, "tic_noise", -1)])
          : r2 \in RandDraws}

\* the mutants of TakePlanet: the label test is dropped / the draw is compared the
\* wrong way round
TakePlanetAnyLabel(rand_num, y) == rand_num < config.synthetic_prob

TakePlanetAbove(rand_num, y) == (rand_num > config.synthetic_prob) /\ (y = Some(R(0)))

\* line 201: (rand_num < self.synthetic_prob) and (y == 0.0)
TakePlanet(rand_num, y) == (rand_num < config.synthetic_prob) /\ (y = Some(R(0)))

\* the mutant of PlanetLabel: the label is not forced
PlanetLabelKept(y) == y

\* line 203: y = torch.tensor(1.0) after _add_synthetic_transit, whatever y was
PlanetLabel(y) == Some(R(1))

\* the mutant of TakeEb: the interval is closed at synthetic_prob
TakeEbClosed(rand_num, y) ==
    /\ config.synthetic_prob <= rand_num
    /\ rand_num < config.synthetic_prob + config.eb_prob + 1
    /\ y = Some(R(0))
    /\ config.eb_prob > 0

\* line 205; the 1e-8 is one unit
TakeEb(rand_num, y) ==
    /\ config.synthetic_prob < rand_num
    /\ rand_num < config.synthetic_prob + config.eb_prob + 1
    /\ y = Some(R(0))
    /\ config.eb_prob > 0

\* lines 286-298 and 207: _add_synthetic_eclipse_binary, then y = 0.0
AddSyntheticEclipseBinary(f) ==
    IF Len(eb_data.v) = 0 THEN {<<"raised", f>>}
    ELSE UNION {
        {IF o.kind = "ok"
         THEN <<"go", [Stage(f, "inject") EXCEPT
                          !.x = MarkEb([f.x EXCEPT !.flux = Some(o.flux)], eb_data.v[k]),
                          !.y = Some(R(0)), !.start_idx = o.start_idx, !.eb_inj = k]>>
         ELSE <<"raised", [Stage(f, "inject") EXCEPT !.eb_inj = k]>>
         : o \in InjectPass(f.x.flux.v, eb_data.v[k].flux, FALSE)}
        : k \in 1..Len(eb_data.v)}

\* lines 199-217: the synthetic decision on the resolved (x, y) with the draw
\* rand_num; "go" stands for "continue at line 219"
Decide(f) ==
    IF TakePlanet(f.rand_num, f.y)
    THEN {<<"snr", [f EXCEPT !.branch = "planet"]>>}
    ELSE IF TakeEb(f.rand_num, f.y)
    THEN AddSyntheticEclipseBinary([f EXCEPT !.branch = "eb"])
    ELSE {<<"go", [f EXCEPT !.branch = "real", !.x = MarkReal(@)]>>}

\* replace every "go" by what lines 219-239 do
Continue(outs) ==
    UNION {IF o[1] = "go" THEN AfterDecision(o[2]) ELSE {o} : o \in outs}

Frame(idx, res, rand_num) ==
    [idx |-> idx, hit |-> res.hit, early |-> res.early, x |-> res.x, y |-> res.y,
     y_res |-> res.y, rand_num |-> rand_num, branch |-> "none",
     num_bad |-> 0, ncand |-> 0, pl_inj |-> 0, pl_snr |-> R(0), start_idx |-> -1,
     exhausted |-> FALSE, eb_inj |-> 0, noise_num |-> -1, noise_idx |-> -1,
     noise_start |-> -1,
     stages |-> IF res.early THEN {} ELSE {"synth_draw"}]

\* one call __getitem__(idx) up to its return or to the first loop it enters
Begin(idx) ==
    LET res == Resolve(idx)
    IN  /\ cache' = res.cache
        /\ IF res.early
           THEN /\ pc' = "ret"
                /\ cur' = Frame(idx, res, -1)
           ELSE \E rand_num \in RandDraws :
                  \E o \in Continue(Decide(Frame(idx, res, rand_num))) :
                     /\ pc' = o[1]
                     /\ cur' = o[2]

\* ------------------------------------------------- _add_synthetic_transit
\* lines 389-391: the cdpp key whose timescale is nearest the planet's duration
\* (np.argmin takes the first of equal distances)
NearestCdppKey(duration) ==
    LET Dist(d) == RAbs(RAdd(duration, RMul(d, R(-1))))
        d05 == Dist(Rat(1, 2))
        d1 == Dist(R(1))
        d2 == Dist(R(2))
    IN  IF RLe(d05, d1) /\ RLe(d05, d2) THEN "cdpp05"
        ELSE IF RLe(d1, d2) THEN "cdpp1"
        ELSE "cdpp2"

\* lines 393-399
PlSnr(x, pl_inj) ==
    LET key == NearestCdppKey(pl_inj.duration)
    IN  IF Has(x, key) THEN RDiv(pl_inj.depth, R(x[key])) ELSE R(AssumedSnr)

\* the mutant of BadSnr: no upper limit (the older test of line 405)
BadSnrLowOnly(pl_snr) == RLt(pl_snr, config.min_snr)

\* line 404
BadSnr(pl_snr) == RLt(pl_snr, config.min_snr) \/ RLt(R(MaxSnr), pl_snr)

\* the mutant of TooManyBad: num_bad >= 10
TooManyBadAtLimit(num_bad) == num_bad >= MaxBad

\* line 412
TooManyBad(num_bad) == num_bad > MaxBad

\* one iteration of the while loop of lines 386-415
SnrDraw ==
    /\ pc = "snr"
    /\ IF Len(pl_data.v) = 0
       THEN pc' = "raised" /\ cur' = cur
       ELSE \E k \in 1..Len(pl_data.v) :
              LET pl_snr == PlSnr(cur.x, pl_data.v[k])
                  f == [cur EXCEPT !.ncand = @ + 1, !.pl_inj = k, !.pl_snr = pl_snr]
                  g == [f EXCEPT !.num_bad = @ + 1]
              IN  IF BadSnr(pl_snr)
                  THEN IF TooManyBad(g.num_bad)
                       \* x["flux"] = None; return x; then y = 1.0 at line 203
                       THEN \E o \in AfterDecision([g EXCEPT !.x.flux = None,
                                                             !.y = PlanetLabel(cur.y),
                                                             !.exhausted = TRUE]) :
                               pc' = o[1] /\ cur' = o[2]
                       ELSE pc' = "snr" /\ cur' = g
                  ELSE pc' = "place" /\ cur' = f
    /\ UNCHANGED <<config, pl_data, eb_data, cache, filling_cache, fill_i, inj, col, stores, twin, net, mix, ext>>

\* line 417 (one iteration of the placement loop when single_transit), then
\* lines 418-428 and y = 1.0 at line 203
PlaceDraw ==
    /\ pc = "place"
    /\ IF FluxIsNone(cur.x)
       THEN pc' = "raised" /\ cur' = cur
       ELSE LET pl_inj == pl_data.v[cur.pl_inj]
            IN  \E o \in InjectPass(cur.x.flux.v, pl_inj.flux, config.single_transit_only) :
                  CASE o.kind = "raise" -> pc' = "raised" /\ cur' = Stage(cur, "inject")
                    [] o.kind = "retry" -> pc' = "place" /\ cur' = cur
                    [] OTHER ->
                        \E n \in AfterDecision(
                                   [Stage(cur, "inject") EXCEPT
                                       !.x = MarkPlanet([cur.x EXCEPT !.flux = Some(o.flux)],
                                                        pl_inj, cur.pl_snr),
                                       !.y = PlanetLabel(cur.y), !.start_idx = o.start_idx]) :
                            pc' = n[1] /\ cur' = n[2]
    /\ UNCHANGED <<config, pl_data, eb_data, cache, filling_cache, fill_i, inj, col, stores, twin, net, mix, ext>>

\* ------------------------------------------------------------ _add_lc_noise
\* lines 503-506: inj_flux /= np.abs(median); inj_flux += 2 when median < 0
Normalised(inj_flux, median) ==
    [i \in 1..Len(inj_flux) |->
        LET v == RDiv(inj_flux[i], RAbs(median))
        IN  IF RLt(median, R(0)) THEN RAdd(v, R(2)) ELSE v]

\* line 511: np.nan_to_num(inj_flux, nan=1.0)
NanToNum(flux) == [i \in 1..Len(flux) |-> IF IsNaN(flux[i]) THEN R(1) ELSE flux[i]]

\* lines 488-490: with i in the cache, x_noise IS the cached dict, so the in-place
\* operations of lines 503-506 write the cached flux
CacheAfterNoise(i, flux) ==
    IF i \in DOMAIN cache
    THEN [cache EXCEPT ![i] = <<[cache[i][1] EXCEPT !.flux = Some(flux)], cache[i][2]>>]
    ELSE cache

\* the mutant of NoiseCandidateOk: the zero-label test is dropped
NoiseCandidateAnyStar(x_noise) == x_noise.flux # None /\ Has(x_noise, "tic")

\* line 497: (inj_flux is not None) and (tic_id in self.zero_tics), with
\* tic_id = x_noise.get("tic")
NoiseCandidateOk(x_noise) ==
    x_noise.flux # None /\ Has(x_noise, "tic") /\ x_noise.tic \in zero_tics

\* one iteration of the while loop of lines 485-518, then lines 234-239
NoiseDraw ==
    /\ pc = "noise"
    /\ \E i \in RandInt(0, NumFiles) :
         LET x_noise == IF i \in DOMAIN cache THEN cache[i][1] ELSE read_lc_csv(i)
             inj_flux == x_noise.flux
             median == NanMedian(inj_flux.v)
             norm == Normalised(inj_flux.v, median)
             base_flux == cur.x.flux.v
             cut == IF Len(norm) >= Len(base_flux)
                    THEN SliceTo(norm, Len(base_flux) - 1) ELSE norm
             starts == RandInt(0, Len(base_flux) - Len(cut))
             f == [Stage(cur, "noise") EXCEPT !.noise_idx = i]
         IN  IF ~NoiseCandidateOk(x_noise)
             THEN pc' = "noise" /\ cur' = cur /\ cache' = cache
             ELSE IF IsCloseZero(median)
             THEN pc' = "noise" /\ cur' = cur /\ cache' = cache
             ELSE /\ cache' = CacheAfterNoise(i, norm)
                  /\ IF FluxIsNone(cur.x) \/ starts = {}
                     THEN pc' = "raised" /\ cur' = f
                     ELSE \E s \in starts :
                            LET o == Finish([f EXCEPT
                                        !.noise_start = s,
                                        !.x = Put([cur.x EXCEPT !.flux =
                                                     Some(MulWindow(base_flux, s, NanToNum(cut)))],
                                                  "tic_noise", x_noise.tic)])
                            IN  pc' = o[1] /\ cur' = o[2]
    /\ UNCHANGED <<config, pl_data, eb_data, filling_cache, fill_i, inj, col, stores, twin, net, mix, ext>>

\* ------------------------------------------------------------ construction
Probs == {0, Half, ProbOne}

Config(sp, eb, vol, noise, single, tr, store) ==
    [data_split |-> <<"train", "debug">>, synthetic_prob |-> sp, eb_prob |-> eb,
     vol_negs_only |-> vol, lc_noise_prob |-> noise, min_snr |-> Rat(1, 2),
     single_transit_only |-> single, transform |-> tr, store_cache |-> store]

\* The configurations checked: every combination of the three probabilities, the
\* placement mode (it is read only when planets are injected) and the cache
\* switch; the zero-label-only filter and the transform are switched on in the
\* configurations that take all three branches of the synthetic decision.
\* min_snr is the constructor's default (line 44), preprocessing is None as in
\* get_data_loaders (line 563).
Configs ==
    {c \in {Config(sp, eb, FALSE, noise, single, FALSE, store) :
                sp \in Probs, eb \in {0, Half}, noise \in {0, Half},
                single \in BOOLEAN, store \in BOOLEAN} :
        c.single_transit_only \/ c.synthetic_prob > 0}
    \cup
    {Config(Half, Half, vol, Half, single, tr, store) :
        vol \in BOOLEAN, tr \in BOOLEAN, single \in BOOLEAN, store \in BOOLEAN}

Off == [pc |-> "off"]

\* __init__ up to line 126: the stores are loaded, the cache is empty and the fill
\* loop is about to start (line 131 directly when store_cache is off)
Init ==
    /\ config \in Configs
    /\ pl_data = IF config.synthetic_prob > 0
                 THEN Some(GetPlData(config.data_split, config.single_transit_only))
                 ELSE None
    /\ eb_data = IF config.eb_prob > 0 THEN Some(GetEbData(config.data_split)) ELSE None
    /\ cache = <<>>
    /\ filling_cache = config.store_cache
    /\ fill_i = 0
    /\ pc = "idle"
    /\ cur = Off
    /\ inj = Off
    /\ col = Off
    /\ stores = Off
    /\ twin = Off /\ net = Off /\ mix = Off /\ ext = Off

\* lines 128-129: self.__getitem__(i) of the fill loop
FillCall ==
    /\ filling_cache
    /\ pc = "idle"
    /\ fill_i < NumFiles
    /\ Begin(fill_i)
    /\ fill_i' = fill_i + 1
    /\ UNCHANGED <<config, pl_data, eb_data, filling_cache, inj, col, stores, twin, net, mix, ext>>

\* line 131
FillDone ==
    /\ filling_cache
    /\ pc = "idle"
    /\ fill_i = NumFiles
    /\ filling_cache' = FALSE
    /\ UNCHANGED <<config, pl_data, eb_data, cache, fill_i, pc, cur, inj, col, stores, twin, net, mix, ext>>

\* a caller's dataset[idx] after construction
Get ==
    /\ ~filling_cache
    /\ pc = "idle"
    /\ \E idx \in 0..(NumFiles - 1) : Begin(idx)
    /\ UNCHANGED <<config, pl_data, eb_data, filling_cache, fill_i, inj, col, stores, twin, net, mix, ext>>

\* The call is over: its frame is gone.  The fill loop drops the pair returned
\* (line 129) and an exception raised there ends the constructor; after
\* construction the caller takes the pair, or the exception, and may call again.
CallOver ==
    /\ (pc = "ret") \/ (pc = "raised" /\ ~filling_cache)
    /\ pc' = "idle"
    /\ cur' = Off
    /\ UNCHANGED <<config, pl_data, eb_data, cache, filling_cache, fill_i, inj, col, stores, twin, net, mix, ext>>

Next == FillCall \/ FillDone \/ Get \/ SnrDraw \/ PlaceDraw \/ NoiseDraw \/ CallOver

Spec == Init /\ [][Next]_vars

\* ----------------------------- providers over the planet stores of any size
\* The planet store holds what the planet files of the split leave after the tests
\* of _get_pl_data: here the first n of them, for every n from none to all.
PlanetStores(data_split, single_transit_only) ==
    LET all == GetPlData(data_split, single_transit_only)
    IN  {SubSeq(all, 1, n) : n \in 0..Len(all)}

\* zero-label samples always take the planet branch; noise is mixed in half of
\* the calls
LoopConfigs ==
    {Config(ProbOne, 0, FALSE, Half, single, FALSE, store) :
        single \in BOOLEAN, store \in BOOLEAN}

InitSnrLoop ==
    /\ config \in LoopConfigs
    /\ \E st \in PlanetStores(config.data_split, config.single_transit_only) :
            pl_data = Some(st)
    /\ eb_data = None
    /\ cache = <<>>
    /\ filling_cache = config.store_cache
    /\ fill_i = 0
    /\ pc = "idle"
    /\ cur = Off
    /\ inj = Off /\ col = Off /\ stores = Off /\ twin = Off /\ net = Off /\ mix = Off /\ ext = Off

SpecSnrLoop == InitSnrLoop /\ [][Next]_vars

\* ------------------------------------- _inject_transit called on its own
SeqsUpTo(V, n) == UNION {[1..k -> V] : k \in 0..n}

\* the flux values the stand-alone calls draw from
FluxVals == {R(2), Rat(1, 2), NaN}

InitInject ==
    /\ inj \in [pc : {"call"},
                base_flux : SeqsUpTo(FluxVals, MaxBaseLen),
                injected_flux : SeqsUpTo(FluxVals, MaxSigLen),
                single_transit : BOOLEAN,
                out : {<<>>}, start_idx : {-1}, tries : {0}]
    /\ config = Off /\ pl_data = None /\ eb_data = None /\ cache = <<>>
    /\ filling_cache = FALSE /\ fill_i = 0 /\ pc = "idle" /\ cur = Off
    /\ col = Off /\ stores = Off /\ twin = Off /\ net = Off /\ mix = Off /\ ext = Off

\* _inject_transit(base_flux, injected_flux, single_transit): one pass of lines
\* 457-474 (one iteration of the placement loop when single_transit)
InjectTransit ==
    /\ inj.pc = "call"
    /\ \E o \in InjectPass(inj.base_flux, inj.injected_flux, inj.single_transit) :
         CASE o.kind = "raise" -> inj' = [inj EXCEPT !.pc = "raised"]
           [] o.kind = "retry" ->
                 inj' = [inj EXCEPT !.tries = IF @ < MaxTries THEN @ + 1 ELSE @]
           [] OTHER -> inj' = [inj EXCEPT !.pc = "done", !.out = o.flux,
                                          !.start_idx = o.start_idx]
    /\ UNCHANGED <<provider_vars, col, stores, twin, net, mix, ext>>

SpecInject == InitInject /\ [][InjectTransit]_vars

\* _inject_transit on longer base fluxes with gaps: the base is any sequence of
\* values and gaps up to MaxGappedLen points, the signal a dip of any length below
\* MaxGappedLen
InitInjectGapped ==
    /\ inj \in [pc : {"call"},
                base_flux : SeqsUpTo({R(2), NaN}, MaxGappedLen),
                injected_flux : SeqsUpTo({Rat(1, 2)}, MaxGappedLen - 1),
                single_transit : BOOLEAN,
                out : {<<>>}, start_idx : {-1}, tries : {0}]
    /\ config = Off /\ pl_data = None /\ eb_data = None /\ cache = <<>>
    /\ filling_cache = FALSE /\ fill_i = 0 /\ pc = "idle" /\ cur = Off
    /\ col = Off /\ stores = Off /\ twin = Off /\ net = Off /\ mix = Off /\ ext = Off

SpecInjectGapped == InitInjectGapped /\ [][InjectTransit]_vars

\* the pass of _inject_transit in which np.random.randint returns s and the
\* window at s is taken
PlacedAt(s) == InjectTransit /\ inj'.pc = "done" /\ inj'.start_idx = s

\* np.random.randint draws uniformly and independently on every iteration of the
\* loop of lines 463-468: a value it can return is not avoided for ever
FairDraws == \A s \in 0..MaxGappedLen : WF_vars(PlacedAt(s))

FairSpecInjectGapped == InitInjectGapped /\ [][InjectTransit]_vars /\ FairDraws

\* ------------------------------------------- collate_fn called on its own
\* the pairs (x, y) a batch is made of: flux present or None, label present or None;
\* the DataLoader hands collate_fn batches of at least one pair
Pairs(i) ==
    {<<[flux |-> fl, tic |-> i], y>> :
        fl \in {None, Some(<<R(1)>>)}, y \in {None, Some(R(0)), Some(R(1))}}

Batches == UNION {{b \in [1..n -> UNION {Pairs(i) : i \in 1..n}] :
                      \A i \in 1..n : b[i][1].tic = i} : n \in 1..MaxBatch}

InitCollate ==
    /\ col \in [pc : {"call"}, batch : Batches, out : {<<>>}]
    /\ config = Off /\ pl_data = None /\ eb_data = None /\ cache = <<>>
    /\ filling_cache = FALSE /\ fill_i = 0 /\ pc = "idle" /\ cur = Off
    /\ inj = Off /\ stores = Off /\ twin = Off /\ net = Off /\ mix = Off /\ ext = Off

Collate ==
    /\ col.pc = "call"
    /\ LET o == collate_fn(col.batch)
       IN  IF o.kind = "raise"
           THEN col' = [col EXCEPT !.pc = "raised"]
           ELSE col' = [col EXCEPT !.pc = "done", !.out = o.batch]
    /\ UNCHANGED <<provider_vars, inj, stores, twin, net, mix, ext>>

SpecCollate == InitCollate /\ [][Collate]_vars

\* ------------------- the stores of the three providers of get_data_loaders
\* lines 596, 613, 630: data_split = f"train_{data_split}", "val_...", "test_..."
Providers == {"train", "val", "test"}

\* args.data_split (line 556; "debug" is the default of line 700)
Suffixes == {"debug", "standard"}

\* one source file and its row of the metadata table
SourceFiles ==
    [kind : {"planet"}, tic_id : 0..MaxTic, flux : {<<>>, <<R(1), Rat(1, 2), R(1)>>},
     depth : {R(6)}, duration : {R(1), R(5)}, period : {R(3)},
     single_transit_only : BOOLEAN]
    \cup
    [kind : {"eb"}, tic_id : 0..MaxTic, flux : {<<>>, <<R(1), Rat(1, 2)>>},
     eb_prim_depth : {R(3)}, eb_sec_depth : {R(1)}, eb_period : {R(2)}]

InitStores ==
    /\ stores \in [pc : {"scan"}, suffix : Suffixes, file : SourceFiles,
                   done : {[p \in Providers |-> FALSE]},
                   passed : {[p \in Providers |-> FALSE]},
                   data : {[p \in Providers |-> <<>>]}]
    /\ config = Off /\ pl_data = None /\ eb_data = None /\ cache = <<>>
    /\ filling_cache = FALSE /\ fill_i = 0 /\ pc = "idle" /\ cur = Off
    /\ inj = Off /\ col = Off /\ twin = Off /\ net = Off /\ mix = Off /\ ext = Off

\* the constructor of one provider scans the file: the loop body of _get_pl_data
\* (lines 314-352) or of _get_eb_data (lines 255-275)
LoadStore ==
    /\ stores.pc = "scan"
    /\ \E p \in Providers :
         LET data_split == <<p, stores.suffix>>
             f == stores.file
             rec == IF f.kind = "planet"
                    THEN PlRecord(data_split, f.single_transit_only, f)
                    ELSE EbRecord(data_split, f)
         IN  /\ ~stores.done[p]
             /\ stores' = [stores EXCEPT
                              !.done[p] = TRUE,
                              !.passed[p] = IsPlanetInDataSplit(data_split, f.tic_id),
                              !.data[p] = Kept(<<rec>>)]
    /\ UNCHANGED <<provider_vars, inj, col, twin, net, mix, ext>>

SpecStores == InitStores /\ [][LoadStore]_vars

\* args.data_split is any string (type=str, line 700): also one that holds the
\* word of a split
AnySuffixes == Suffixes \cup {"retrain", "eval", "latest"}

InitAnySuffix ==
    /\ stores \in [pc : {"scan"}, suffix : AnySuffixes, file : SourceFiles,
                   done : {[p \in Providers |-> FALSE]},
                   passed : {[p \in Providers |-> FALSE]},
                   data : {[p \in Providers |-> <<>>]}]
    /\ config = Off /\ pl_data = None /\ eb_data = None /\ cache = <<>>
    /\ filling_cache = FALSE /\ fill_i = 0 /\ pc = "idle" /\ cur = Off
    /\ inj = Off /\ col = Off /\ twin = Off /\ net = Off /\ mix = Off /\ ext = Off

SpecAnySuffix == InitAnySuffix /\ [][LoadStore]_vars

\* ------------------------------ two providers on the same random stream
\* test_dataloader seeds the random source once (lines 673-674).  Two runs of the
\* program with the same seed see the same values from np.random, draw by draw.
\* The first provider lives in the provider variables; after each of its steps the
\* second provider is swapped in, takes its step with the same call and the same
\* values drawn, and is swapped out again.
Provider == [cache |-> cache, filling_cache |-> filling_cache, fill_i |-> fill_i,
             pc |-> pc, cur |-> cur]

\* the index a call was made with and the values it has drawn from np.random so far
Drawn(f) ==
    IF f = Off THEN Off
    ELSE [idx |-> f.idx, rand_num |-> f.rand_num, pl_inj |-> f.pl_inj,
          eb_inj |-> f.eb_inj, start_idx |-> f.start_idx,
          noise_num |-> f.noise_num, noise_idx |-> f.noise_idx,
          noise_start |-> f.noise_start]

TwinConfigs ==
    {Config(Half, Half, vol, Half, single, tr, store) :
        vol \in BOOLEAN, tr \in BOOLEAN, single \in BOOLEAN, store \in BOOLEAN}

InitTwin ==
    /\ config \in TwinConfigs
    /\ pl_data = Some(GetPlData(config.data_split, config.single_transit_only))
    /\ eb_data = Some(GetEbData(config.data_split))
    /\ cache = <<>>
    /\ filling_cache = config.store_cache
    /\ fill_i = 0
    /\ pc = "idle"
    /\ cur = Off
    /\ inj = Off /\ col = Off /\ stores = Off /\ net = Off /\ mix = Off /\ ext = Off
    /\ twin = [turn |-> "first", before |-> Provider, other |-> Provider]

\* a step of the first provider
FirstStep ==
    /\ twin.turn = "first"
    /\ Provider = twin.before
    /\ Next

\* a step of the second provider, on the call and the draws of the first's step
SecondStep ==
    /\ twin.turn = "second"
    /\ Provider = twin.before
    /\ Next
    /\ Drawn(cur') = Drawn(twin.other.cur)

\* the provider that has taken its step is put aside and the other one comes in
Swap ==
    /\ Provider # twin.before
    /\ cache' = twin.other.cache
    /\ filling_cache' = twin.other.filling_cache
    /\ fill_i' = twin.other.fill_i
    /\ pc' = twin.other.pc
    /\ cur' = twin.other.cur
    /\ twin' = [turn |-> IF twin.turn = "first" THEN "second" ELSE "first",
                before |-> twin.other, other |-> Provider]
    /\ UNCHANGED <<config, pl_data, eb_data, inj, col, stores, net, mix, ext>>

NextTwin == FirstStep \/ SecondStep \/ Swap

SpecTwin == InitTwin /\ [][NextTwin]_vars

\* The eclipsing-binary store holds what the files of the split leave after the
\* tests of _get_eb_data: the first n of them, for every n from none to all.
EbStores(data_split) ==
    LET all == GetEbData(data_split)
    IN  {SubSeq(all, 1, n) : n \in 0..Len(all)}

InitEbStores ==
    /\ config \in TwinConfigs
    /\ pl_data = Some(GetPlData(config.data_split, config.single_transit_only))
    /\ \E st \in EbStores(config.data_split) : eb_data = Some(st)
    /\ cache = <<>>
    /\ filling_cache = config.store_cache
    /\ fill_i = 0
    /\ pc = "idle"
    /\ cur = Off
    /\ inj = Off /\ col = Off /\ stores = Off /\ twin = Off /\ net = Off /\ mix = Off /\ ext = Off

SpecEbStores == InitEbStores /\ [][Next]_vars

\* ------------------------------------------- a provider over two sectors
\* get_sectors gives the sectors of the split and lines 87-92 list the files of
\* each: here the NumFiles files of the main provider and the two files after
\* them.
SectorFiles == NumFiles + 2

\* no cache and no noise mixing: one call reads one file of the list
SectorConfigs ==
    {Config(sp, eb, vol, 0, single, tr, FALSE) :
        sp \in {0, Half}, eb \in {0, Half}, vol \in BOOLEAN,
        single \in BOOLEAN, tr \in BOOLEAN}

InitSectors ==
    /\ config \in SectorConfigs
    /\ pl_data = IF config.synthetic_prob > 0
                 THEN Some(GetPlData(config.data_split, config.single_transit_only))
                 ELSE None
    /\ eb_data = IF config.eb_prob > 0 THEN Some(GetEbData(config.data_split)) ELSE None
    /\ cache = <<>>
    /\ filling_cache = FALSE
    /\ fill_i = 0
    /\ pc = "idle"
    /\ cur = Off
    /\ inj = Off /\ col = Off /\ stores = Off /\ twin = Off
    /\ net = Off /\ mix = Off /\ ext = Off

\* a caller's dataset[idx] on the two-sector list
GetSectors ==
    /\ ~filling_cache
    /\ pc = "idle"
    /\ \E idx \in 0..(SectorFiles - 1) : Begin(idx)
    /\ UNCHANGED <<config, pl_data, eb_data, filling_cache, fill_i, inj, col, stores, twin, net, mix, ext>>

NextSectors == GetSectors \/ SnrDraw \/ PlaceDraw \/ CallOver

SpecSectors == InitSectors /\ [][NextSectors]_vars

\* --------------------- a caching provider and a plain one, on the same calls
\* Two providers on the same files and labels, equal in every argument but
\* store_cache.  The caching one is constructed (its fill loop runs) and serves a
\* call; the plain one then serves the same index, and where both draw from
\* np.random they get the same value.  Planets are off, so that every draw of a
\* call is in its frame.
CacheTwinConfigs ==
    {Config(0, Half, vol, Half, FALSE, TRUE, TRUE) : vol \in BOOLEAN}

\* a provider with its arguments
Instance == [config |-> config] @@ Provider

DrawFields == {"rand_num", "eb_inj", "start_idx", "noise_num", "noise_idx", "noise_start"}

\* no draw of frame f differs from the same draw of frame g
DrawsAgree(f, g) ==
    \A d \in DrawFields :
        \/ f[d] = Frame(0, [hit |-> FALSE, early |-> FALSE, x |-> <<>>, y |-> None], -1)[d]
        \/ g[d] = Frame(0, [hit |-> FALSE, early |-> FALSE, x |-> <<>>, y |-> None], -1)[d]
        \/ f[d] = g[d]

InitCacheTwin ==
    /\ config \in CacheTwinConfigs
    /\ pl_data = None
    /\ eb_data = Some(GetEbData(config.data_split))
    /\ cache = <<>>
    /\ filling_cache = TRUE
    /\ fill_i = 0
    /\ pc = "idle"
    /\ cur = Off
    /\ inj = Off /\ col = Off /\ stores = Off /\ net = Off /\ mix = Off /\ ext = Off
    /\ twin = [turn |-> "caching", ref |-> Off,
               other |-> [config |-> [config EXCEPT !.store_cache = FALSE],
                          cache |-> <<>>, filling_cache |-> FALSE, fill_i |-> 0,
                          pc |-> "idle", cur |-> Off]]

\* the provider of twin.other comes in
ComeIn ==
    /\ config' = twin.other.config
    /\ cache' = twin.other.cache
    /\ filling_cache' = twin.other.filling_cache
    /\ fill_i' = twin.other.fill_i
    /\ pc' = twin.other.pc
    /\ cur' = twin.other.cur
    /\ UNCHANGED <<pl_data, eb_data, inj, col, stores, net, mix, ext>>

\* a step of the caching provider: its construction, a call, the end of a call
\* whose result the plain provider has matched
CachingStep ==
    /\ twin.turn = "caching"
    /\ filling_cache \/ pc \notin {"ret", "raised"} \/ cur = twin.ref
    /\ Next

\* the caching provider has served a call after its construction: the plain one
\* is given the same index
PlainTurn ==
    /\ twin.turn = "caching"
    /\ ~filling_cache /\ pc \in {"ret", "raised"} /\ cur # twin.ref
    /\ ComeIn
    /\ twin' = [turn |-> "plain", ref |-> cur, other |-> Instance]

\* a step of the plain provider on the same index and the same draws
PlainStep ==
    /\ twin.turn = "plain"
    /\ pc \notin {"ret", "raised"}
    /\ Next
    /\ cur'.idx = twin.ref.idx
    /\ DrawsAgree(cur', twin.ref)

\* the plain provider's call is over; the caching one goes on
CachingTurn ==
    /\ twin.turn = "plain"
    /\ pc \in {"ret", "raised"}
    /\ ComeIn
    /\ twin' = [turn |-> "caching", ref |-> twin.ref,
                other |-> [Instance EXCEPT !.pc = "idle", !.cur = Off]]

NextCacheTwin == CachingStep \/ PlainTurn \/ PlainStep \/ CachingTurn

SpecCacheTwin == InitCacheTwin /\ [][NextCacheTwin]_vars

\* ---------------------------------------- _add_lc_noise called on its own
\* the light curves a collection is made of: a corrupt file, a zero-label star,
\* a star with a positive label, a zero-label star with median 0, a zero-label
\* star with a negative median, a zero-label star whose flux is all gaps
NoiseFiles ==
    { [flux |-> None],
      [flux |-> Some(<<R(4), NaN>>), tic |-> 4],
      [flux |-> Some(<<Rat(1, 2)>>), tic |-> 6],
      [flux |-> Some(<<R(-1), R(0), R(1)>>), tic |-> 4],
      [flux |-> Some(<<R(-2)>>), tic |-> 8],
      [flux |-> Some(<<NaN>>), tic |-> 4] }

\* lc_file_list of at most MaxColl files
Collections == UNION {[1..n -> NoiseFiles] : n \in 1..MaxColl}

InitNoise ==
    /\ mix \in [pc : {"call"},
                base_flux : {<<R(2), R(2), NaN>>, <<R(2)>>},
                files : Collections,
                tries : {0}, out : {<<>>}, noise_idx : {-1}, tic_noise : {-1}]
    /\ config = Off /\ pl_data = None /\ eb_data = None /\ cache = <<>>
    /\ filling_cache = FALSE /\ fill_i = 0 /\ pc = "idle" /\ cur = Off
    /\ inj = Off /\ col = Off /\ stores = Off /\ twin = Off /\ net = Off /\ ext = Off

\* lines 503-511: the candidate's flux divided by |median| (plus 2 when the
\* median is negative), cut to len(base_flux) - 1 points when it is not shorter
\* than the base, its gaps set to 1.0; as a sequence of values
NoiseSignal(base_flux, inj_flux, median) ==
    LET norm == Normalised(inj_flux, median)
        cut == IF Len(norm) >= Len(base_flux)
               THEN SliceTo(norm, Len(base_flux) - 1) ELSE norm
    IN  SubSeq(NanToNum(cut), 1, Len(cut))

\* lines 500-518 for a candidate that passed the test of line 497 and has the
\* given median: draw again ("retry"), raise (ValueError of randint on an empty
\* range) or blend it ("ok")
NoiseBlend(base_flux, x_noise, i, median) ==
    IF IsCloseZero(median) THEN {[kind |-> "retry"]}
    ELSE UNION {IF RandInt(0, Len(base_flux) - Len(sig)) = {}
                THEN {[kind |-> "raise"]}
                ELSE {[kind |-> "ok", noise_idx |-> i, tic_noise |-> x_noise.tic,
                       flux |-> MulWindow(base_flux, st, sig)]
                      : st \in RandInt(0, Len(base_flux) - Len(sig))}
                : sig \in {NoiseSignal(base_flux, x_noise.flux.v, median)}}

\* What one iteration of the loop of lines 485-518 can do with the light curve
\* of index i (the median of line 499 is computed once)
NoisePass(base_flux, x_noise, i) ==
    IF ~NoiseCandidateOk(x_noise) THEN {[kind |-> "retry"]}
    ELSE UNION {NoiseBlend(base_flux, x_noise, i, median) :
                    median \in {NanMedian(x_noise.flux.v)}}

\* _add_lc_noise(x) with an empty cache: one iteration of the loop
AddLcNoise ==
    /\ mix.pc = "call"
    /\ \E i \in RandInt(0, Len(mix.files)) :
         \E o \in NoisePass(mix.base_flux, mix.files[i + 1], i) :
           CASE o.kind = "raise" -> mix' = [mix EXCEPT !.pc = "raised"]
             [] o.kind = "retry" ->
                   mix' = [mix EXCEPT !.tries = IF @ < MaxTries THEN @ + 1 ELSE @]
             [] OTHER -> mix' = [mix EXCEPT !.pc = "done", !.noise_idx = o.noise_idx,
                                            !.tic_noise = o.tic_noise, !.out = o.flux]
    /\ UNCHANGED <<provider_vars, inj, col, stores, twin, net, ext>>

SpecNoise == InitNoise /\ [][AddLcNoise]_vars

\* the iteration in which np.random.randint(len(self)) returns i and the light
\* curve of index i is blended
BlendedFrom(i) == AddLcNoise /\ mix'.pc = "done" /\ mix'.noise_idx = i

\* line 487 draws uniformly and independently on every iteration: an index is not
\* avoided for ever
FairNoiseDraws == \A i \in 0..(MaxColl - 1) : WF_vars(BlendedFrom(i))

FairSpecNoise == InitNoise /\ [][AddLcNoise]_vars /\ FairNoiseDraws

\* -------------------------------- _extract_single_transit called on its own
\* planet fluxes: points in the dip, on the baseline and above it
PlFluxVals == {Rat(1, 2), R(1), Rat(3, 2)}

\* _get_pl_data hands over the non-empty fluxes only (lines 329-332)
InitExtract ==
    /\ ext \in [pc : {"call"},
                x : UNION {[1..n -> PlFluxVals] : n \in 1..MaxPlLen},
                transit : {<<>>}]
    /\ config = Off /\ pl_data = None /\ eb_data = None /\ cache = <<>>
    /\ filling_cache = FALSE /\ fill_i = 0 /\ pc = "idle" /\ cur = Off
    /\ inj = Off /\ col = Off /\ stores = Off /\ twin = Off /\ net = Off /\ mix = Off

\* transit = self._extract_single_transit(x)
ExtractTransit ==
    /\ ext.pc = "call"
    /\ ext' = [ext EXCEPT !.pc = "done", !.transit = ExtractSingleTransit(ext.x)]
    /\ UNCHANGED <<provider_vars, inj, col, stores, twin, net, mix>>

SpecExtract == InitExtract /\ [][ExtractTransit]_vars

\* ------------------------------------------- nets.py: the constructors
\* The variants whose __init__ takes input_dim with a default value.
Variants == {"RamjetBin3", "RamjetBin7", "ResNetBin7", "ResNetBigBin7",
             "ResNetBigKernelDenseBin7", "ResNetBigKernelBin7", "ResNetFullConvBin7"}

\* the default of the input_dim parameter (lines 20, 77, 129, 183, 241, 297, 352)
DefaultInputDim(v) == IF v = "RamjetBin3" THEN 6300 ELSE 2700

\* The input size of the first dense block the constructor builds after its
\* convolution blocks, None when it raises ValueError('input_dim not supported').
\* The last three variants build their blocks without looking at input_dim.
DenseInput(v, d) ==
    CASE v = "RamjetBin3" ->                                  \* lines 39-44
            IF d = 6300 THEN Some(256 * 8)
            ELSE IF d = 5833 THEN Some(256 * 7) ELSE None
      [] v = "RamjetBin7" ->                                  \* lines 94-99
            IF d = 2700 THEN Some(128 * 17)
            ELSE IF d = 2500 THEN Some(128 * 15) ELSE None
      [] v = "ResNetBin7" ->                                  \* lines 147-152
            IF d = 2700 THEN Some(128 * 22)
            ELSE IF d = 2500 THEN Some(128 * 20) ELSE None
      [] v = "ResNetBigBin7" ->                               \* lines 205-208
            IF d = 2500 THEN Some(128 * 10) ELSE None
      [] v = "ResNetBigKernelDenseBin7" -> Some(128 * 3)      \* line 263
      [] OTHER -> Some(128)                                   \* lines 322, 376

\* the variants whose constructor tests input_dim
ChecksInputDim(v) ==
    v \in {"RamjetBin3", "RamjetBin7", "ResNetBin7", "ResNetBigBin7"}

InputDims == {2500, 2700, 5833, 6300, 1000}
OutputDims == 1..3

InitNets ==
    /\ config = Off /\ pl_data = None /\ eb_data = None
    /\ cache = <<>> /\ filling_cache = FALSE /\ fill_i = 0
    /\ pc = "idle" /\ cur = Off
    /\ inj = Off /\ col = Off /\ stores = Off /\ twin = Off /\ mix = Off /\ ext = Off
    /\ net = Off

\* v(output_dim=o), or v(input_dim=d, output_dim=o) when d is given.  The fields
\* are assigned first, then the blocks; a ValueError leaves the constructor at
\* the test, before the output block and linear_out are built.
Construct ==
    /\ net = Off
    /\ \E v \in Variants, d \in {None} \cup {Some(n) : n \in InputDims}, o \in OutputDims :
          LET input_dim == IF d.some THEN d.v ELSE DefaultInputDim(v)
              dense == DenseInput(v, input_dim)
          IN  net' = [pc |-> IF dense.some THEN "built" ELSE "raised",
                      variant |-> v, by_default |-> ~d.some,
                      input_dim |-> input_dim, output_dim |-> o,
                      dense |-> dense,
                      linear_out |-> IF dense.some THEN Some(o) ELSE None]
    /\ UNCHANGED <<provider_vars, inj, col, stores, twin, mix, ext>>

\* the network is dropped (or the exception has ended the program)
Discard ==
    /\ net # Off
    /\ net' = Off
    /\ UNCHANGED <<provider_vars, inj, col, stores, twin, mix, ext>>

SpecNets == InitNets /\ [][Construct \/ Discard]_vars

\* ================================================================ claims
IsCorrupt(idx) == FluxIsNone(read_lc_csv(idx))

Called == pc # "idle"

\* C1: for an index whose file is corrupt, every __getitem__ call returns (it
\* neither raises nor enters a loop) a sample with flux None and the label None,
\* on the cold call and on every cache hit, with the cache on or off.
C1_CorruptAlwaysAbsent ==
    (Called /\ IsCorrupt(cur.idx)) =>
        (pc = "ret" /\ FluxIsNone(cur.x) /\ cur.y = None)

C1_Witness ==
    /\ pc = "ret" /\ IsCorrupt(cur.idx) /\ cur.hit /\ ~filling_cache
    /\ config.lc_noise_prob > 0 /\ FluxIsNone(cur.x) /\ cur.y = None

\* C2: a cache entry, once stored, is never changed by a later step of any
\* __getitem__ call.
C2_CacheReadOnly ==
    [][\A i \in DOMAIN cache : i \in DOMAIN cache' /\ cache'[i] = cache[i]]_vars

\* C3: a call whose resolved label (y at line 199) is not exactly 0.0 takes the
\* "real" branch: no signal is injected and the class tag is "real".
C3_InjectOnlyZeroLabel ==
    (Called /\ ~cur.early /\ cur.y_res # Some(R(0))) =>
        /\ cur.branch = "real"
        /\ "inject" \notin cur.stages
        /\ cur.start_idx = -1
        /\ cur.x.class = "real"
        /\ cur.x.tic_inj = -1

C3_Witness ==
    /\ pc = "ret" /\ ~cur.early /\ cur.y_res = Some(Rat(1, 2))
    /\ cur.rand_num < config.synthetic_prob /\ cur.x.class = "real"

\* C4 as stated: the 10th consecutive rejection sets flux to None and no 11th
\* candidate is drawn.
C4_AbandonAtTenth ==
    (Called /\ ~cur.early /\ cur.branch = "planet") =>
        /\ cur.ncand <= MaxBad
        /\ (cur.num_bad >= MaxBad => FluxIsNone(cur.x))

\* C4 amended: the sample is abandoned by the 11th consecutive rejection: flux is
\* None exactly when 11 candidates were drawn and all rejected; no 12th is drawn.
C4_AbandonAtEleventh ==
    (Called /\ ~cur.early /\ cur.branch = "planet") =>
        /\ cur.ncand <= MaxBad + 1
        /\ cur.num_bad <= cur.ncand
        /\ (FluxIsNone(cur.x) <=> (cur.num_bad = MaxBad + 1 /\ cur.ncand = MaxBad + 1))
        /\ (FluxIsNone(cur.x) => (pc = "ret" /\ cur.y = None))

C4_Witness ==
    /\ pc = "ret" /\ ~cur.early /\ cur.branch = "planet"
    /\ cur.num_bad = MaxBad + 1 /\ FluxIsNone(cur.x)
    /\ Has(cur.x, "cdpp1")

\* C5: when the sample has the noise estimate nearest the candidate's duration, a
\* planet is injected only with depth / estimate in [min_snr, 15], and that ratio
\* is the snr recorded with class synth_planet.
C5_SnrInBand ==
    /\ (Called /\ ~cur.early /\ cur.branch = "planet" /\ "inject" \in cur.stages
          /\ Has(cur.x, NearestCdppKey(pl_data.v[cur.pl_inj].duration))) =>
           LET pl == pl_data.v[cur.pl_inj]
               snr == RDiv(pl.depth, R(cur.x[NearestCdppKey(pl.duration)]))
           IN  /\ RLe(config.min_snr, snr)
               /\ RLe(snr, R(MaxSnr))
               /\ cur.pl_snr = snr
               /\ Has(cur.x, "class") => (cur.x.snr = snr /\ cur.x.depth = pl.depth)
    /\ (Called /\ ~cur.early /\ Has(cur.x, "class") /\ cur.x.class = "synth_planet") =>
           /\ RLe(config.min_snr, cur.x.snr)
           /\ RLe(cur.x.snr, R(MaxSnr))

C5_Witness ==
    /\ pc = "ret" /\ ~cur.early /\ Has(cur.x, "class") /\ cur.x.class = "synth_planet"
    /\ cur.x.snr = R(3) /\ cur.num_bad > 0

\* C6 as stated: a sample without the noise estimate gets the planet injected
\* unconditionally: the flux stays present and the assumed snr is recorded.
C6_NoEstimateInjects ==
    (pc = "ret" /\ ~cur.early /\ cur.branch = "planet"
       /\ ~Has(cur.x, "cdpp05") /\ ~Has(cur.x, "cdpp1") /\ ~Has(cur.x, "cdpp2")) =>
        /\ ~FluxIsNone(cur.x)
        /\ "inject" \in cur.stages
        /\ cur.x.snr = R(AssumedSnr)

\* C7: with synthetic_prob = 1.0 and eb_prob = 0.0, every call whose resolved
\* label is zero takes the planet branch; a returned sample with flux present has
\* class synth_planet and label 1.0, and none is tagged real or eb.
C7_AllPlanet ==
    (Called /\ ~cur.early /\ config.synthetic_prob = ProbOne /\ config.eb_prob = 0
       /\ cur.y_res = Some(R(0))) =>
        /\ cur.branch = "planet"
        /\ (Has(cur.x, "class") => cur.x.class = "synth_planet")
        /\ (pc = "ret" /\ ~FluxIsNone(cur.x)) =>
              (Has(cur.x, "class") /\ cur.x.class = "synth_planet" /\ cur.y = Some(R(1)))

C7_Witness ==
    /\ pc = "ret" /\ ~cur.early /\ config.synthetic_prob = ProbOne /\ config.eb_prob = 0
    /\ cur.y_res = Some(R(0)) /\ cur.hit /\ ~FluxIsNone(cur.x)
    /\ cur.x.class = "synth_planet" /\ cur.y = Some(R(1))

\* C8: whenever _inject_transit returns, the flux it returns has the length of
\* base_flux, for a signal shorter than, as long as or longer than the base and
\* for both settings of single_transit.
C8_LengthKept ==
    (inj.pc = "done") => Len(inj.out) = Len(inj.base_flux)

C8_Witness ==
    /\ inj.pc = "done" /\ inj.single_transit
    /\ Len(inj.injected_flux) > Len(inj.base_flux)
    /\ Len(inj.base_flux) >= 2

\* C9: with single_transit off and a signal shorter than the base, the result is
\* the base except on one window of len(signal) points starting at some start in
\* 0 .. len(base) - len(signal), where point start + j is base * signal[j].
C9_WindowProduct ==
    (inj.pc = "done" /\ ~inj.single_transit
       /\ Len(inj.injected_flux) < Len(inj.base_flux)) =>
        \E start \in 0..(Len(inj.base_flux) - Len(inj.injected_flux)) :
            /\ Len(inj.out) = Len(inj.base_flux)
            /\ \A i \in 1..Len(inj.base_flux) :
                 inj.out[i] =
                    IF start < i /\ i <= start + Len(inj.injected_flux)
                    THEN RMul(inj.base_flux[i], inj.injected_flux[i - start])
                    ELSE inj.base_flux[i]

C9_Witness ==
    /\ inj.pc = "done" /\ ~inj.single_transit
    /\ Len(inj.injected_flux) = 1 /\ Len(inj.base_flux) = 3
    /\ inj.start_idx = 1
    /\ inj.out # inj.base_flux

\* C10 as stated: collate_fn assembles a batch of exactly the n - k - m pairs with
\* flux and label present, in their order.
C10_SurvivorsAssembled ==
    (col.pc # "call") =>
        LET keep == {i \in 1..Len(col.batch) :
                        col.batch[i][1].flux # None /\ col.batch[i][2] # None}
        IN  /\ col.pc = "done"
            /\ Len(col.out) = Cardinality(keep)
            /\ {col.out[j][1].tic : j \in 1..Len(col.out)} = keep
            /\ \A j \in 1..Len(col.out) : col.out[j] = col.batch[col.out[j][1].tic]

\* C11: the three providers built on one source file: the star passes the split
\* test of the provider its residue mod 4 names (0 train, 1 val, 2 or 3 test) and
\* of no other, so once all three are built exactly one passed it, and no two
\* stores hold a record of the same star.
C11_SplitPartition ==
    LET r == stores.file.tic_id % 4
        owner == IF r = 0 THEN "train" ELSE IF r = 1 THEN "val" ELSE "test"
    IN  (stores.pc = "scan") =>
          /\ \A p \in Providers : stores.done[p] => (stores.passed[p] <=> p = owner)
          /\ \A p \in Providers : \A q \in Providers \ {p} :
                \A i \in 1..Len(stores.data[p]) : \A j \in 1..Len(stores.data[q]) :
                    stores.data[p][i].tic_id # stores.data[q][j].tic_id
          /\ \A p \in Providers \ {owner} : stores.data[p] = <<>>

C11_Witness ==
    /\ stores.pc = "scan" /\ \A p \in Providers : stores.done[p]
    /\ stores.file.tic_id % 4 = 3 /\ stores.file.kind = "eb"
    /\ stores.passed["test"] /\ ~stores.passed["train"] /\ ~stores.passed["val"]
    /\ Len(stores.data["test"]) = 1 /\ stores.data["test"][1].tic_id = stores.file.tic_id

\* the fields of a sample that come from the file name alone (preprocess_lcs.py:151)
NonRandomKeys ==
    {"tic", "sec", "cam", "chi", "tessmag", "teff", "srad", "binfac",
     "cdpp05", "cdpp1", "cdpp2"}

SameNonRandom(x, idx) ==
    \A k \in NonRandomKeys :
        /\ Has(x, k) <=> Has(read_lc_csv(idx), k)
        /\ Has(x, k) => x[k] = read_lc_csv(idx)[k]

\* C12: with the cache on, the sample of every call on index idx, and the cache
\* entry of every index, carries the non-random fields of the file of that index,
\* whatever calls (and noise mixing from other calls) came before: any two calls
\* on one index agree on these fields.
C12_NonRandomStable ==
    config.store_cache =>
        /\ Called => SameNonRandom(cur.x, cur.idx)
        /\ \A i \in DOMAIN cache : SameNonRandom(cache[i][1], i)

C12_Witness ==
    /\ config.store_cache /\ ~filling_cache /\ pc = "ret" /\ cur.hit
    /\ cache[cur.idx][1].flux # read_lc_csv(cur.idx).flux
    /\ "inject" \in cur.stages /\ "noise" \in cur.stages
    /\ cur.x.tic = FileTic(cur.idx) /\ cur.x.cdpp1 = 2

ClassTags == {"real", "synth_planet", "eb"}

\* C13 as stated: every sample a call returns carries a class tag, one of real,
\* synth_planet, eb, on every return path.
C13_EveryReturnTagged ==
    (pc = "ret") => (Has(cur.x, "class") /\ cur.x.class \in ClassTags)

\* C13 amended: a returned sample carries a class tag, the one of the branch the
\* synthetic decision took, exactly when the call passed the synthetic decision
\* without exhausting the planet candidates; every sample returned with a label
\* is tagged.  The returns of lines 167 and 173 and the exhausted return are not.
C13_TaggedUnlessCutShort ==
    (pc = "ret") =>
        /\ Has(cur.x, "class") <=> ~(cur.early \/ cur.exhausted)
        /\ Has(cur.x, "class") =>
              /\ cur.x.class \in ClassTags
              /\ cur.x.class = "real" <=> cur.branch = "real"
              /\ cur.x.class = "synth_planet" <=> cur.branch = "planet"
              /\ cur.x.class = "eb" <=> cur.branch = "eb"
        /\ cur.y # None => Has(cur.x, "class")

C13_Witness ==
    /\ pc = "ret" /\ cur.hit /\ IsCorrupt(cur.idx) /\ ~filling_cache
    /\ Has(cur.x, "class") /\ cur.x.class = "real" /\ cur.y = None

\* C14: in a sample with a class tag, the provenance fields of the other classes
\* hold the sentinel -1: all eight for real, the three eb_* for synth_planet, and
\* depth, duration, period, snr for eb; so snr # -1 only with synth_planet and
\* eb_period # -1 only with eb (the test of lines 682-687).
C14_ProvenanceExclusive ==
    (Called /\ Has(cur.x, "class")) =>
        LET x == cur.x
            PlanetOff == x.depth = R(-1) /\ x.duration = R(-1) /\ x.period = R(-1)
                            /\ x.snr = R(-1)
            EbOff == x.eb_prim_depth = R(-1) /\ x.eb_sec_depth = R(-1)
                        /\ x.eb_period = R(-1)
        IN  /\ x.class = "real" => (x.tic_inj = -1 /\ PlanetOff /\ EbOff)
            /\ x.class = "synth_planet" => EbOff
            /\ x.class = "eb" => PlanetOff
            /\ x.snr # R(-1) => x.class = "synth_planet"
            /\ x.eb_period # R(-1) => x.class = "eb"

C14_Witness ==
    /\ pc = "ret" /\ Has(cur.x, "class") /\ cur.x.class = "eb"
    /\ cur.x.eb_period = R(2) /\ cur.x.eb_prim_depth = R(3) /\ cur.x.tic_inj = 4
    /\ cur.x.snr = R(-1) /\ cur.x.depth = R(-1) /\ cur.y = Some(R(0))

\* the file of idx is readable and its star has no zero label
NotZeroLabelStar(idx) == ~IsCorrupt(idx) /\ read_lc_csv(idx).tic \notin zero_tics

\* C15: with vol_negs_only, a call on an index whose star is not in zero_tics
\* never raises and never injects, its label is None at every step and at the
\* return, cold or from the cache; with the cache on the index is cached with the
\* label None.
C15_FilteredAlwaysAbsent ==
    (Called /\ config.vol_negs_only /\ NotZeroLabelStar(cur.idx)) =>
        /\ pc \in {"ret", "noise"}
        /\ cur.y = None
        /\ cur.branch \in {"none", "real"}
        /\ ~cur.hit <=> cur.early
        /\ config.store_cache =>
              (cur.idx \in DOMAIN cache /\ cache[cur.idx][2] = None)

C15_Witness ==
    /\ pc = "ret" /\ config.vol_negs_only /\ NotZeroLabelStar(cur.idx)
    /\ cur.hit /\ ~filling_cache /\ "noise" \in cur.stages
    /\ read_lc_csv(cur.idx).tic = 6 /\ cur.y = None

\* the flux the running call resolved at line 158 / 197, while no noise step of
\* the call has run
ResolvedFlux(idx) ==
    IF idx \in DOMAIN cache THEN cache[idx][1].flux.v ELSE read_lc_csv(idx).flux.v

\* C16: a call whose resolved label is 0.0 and whose draw is in [0, synthetic_prob)
\* takes the planet branch; once a candidate is placed, the flux is the resolved
\* flux times the candidate's signal on the window drawn, the class is
\* synth_planet and the label is 1.0 from then on.
C16_PlanetInterval ==
    (Called /\ ~cur.early /\ cur.y_res = Some(R(0))
       /\ 0 <= cur.rand_num /\ cur.rand_num < config.synthetic_prob) =>
        /\ cur.branch = "planet"
        /\ cur.start_idx >= 0 =>
              /\ Has(cur.x, "class") /\ cur.x.class = "synth_planet"
              /\ cur.y = Some(R(1))
              /\ cur.x.tic_inj = pl_data.v[cur.pl_inj].tic_id
              /\ cur.stages \cap {"noise", "transform"} = {} =>
                    LET base == ResolvedFlux(cur.idx)
                        sig == Truncated(base, pl_data.v[cur.pl_inj].flux)
                    IN  cur.x.flux = Some(MulWindow(base, cur.start_idx, sig))

C16_Witness ==
    /\ pc = "ret" /\ ~cur.early /\ cur.y_res = Some(R(0)) /\ cur.hit
    /\ cur.rand_num = Quarter /\ config.synthetic_prob = Half
    /\ cur.start_idx = 0 /\ cur.x.class = "synth_planet" /\ cur.y = Some(R(1))
    /\ cur.stages \cap {"noise", "transform"} = {}
    /\ cur.x.flux.v # ResolvedFlux(cur.idx)

\* C17 as stated: with eb_prob > 0 and a resolved label 0.0, every draw with
\* synthetic_prob <= r < synthetic_prob + eb_prob takes the eclipsing-binary
\* branch; with eb_prob = 0 nothing is tagged eb.
C17_EbIntervalClosed ==
    /\ (Called /\ ~cur.early /\ cur.y_res = Some(R(0)) /\ config.eb_prob > 0
          /\ config.synthetic_prob <= cur.rand_num
          /\ cur.rand_num < config.synthetic_prob + config.eb_prob) =>
            cur.branch = "eb"
    /\ (Called /\ config.eb_prob = 0) =>
            (cur.branch # "eb" /\ (Has(cur.x, "class") => cur.x.class # "eb"))

\* C17 amended: with a resolved label 0.0 the eclipsing-binary branch is taken
\* exactly when eb_prob > 0 and synthetic_prob < r < synthetic_prob + eb_prob + 1e-8;
\* the draw equal to synthetic_prob gives a real sample.  Once the binary is
\* placed the class is eb and the label 0.0.  With eb_prob = 0 nothing is tagged eb.
C17_EbIntervalOpen ==
    /\ (Called /\ ~cur.early /\ cur.y_res = Some(R(0))) =>
          /\ cur.branch = "eb" <=>
                /\ config.eb_prob > 0
                /\ config.synthetic_prob < cur.rand_num
                /\ cur.rand_num < config.synthetic_prob + config.eb_prob + 1
          /\ cur.rand_num = config.synthetic_prob => cur.branch = "real"
          /\ (cur.branch = "eb" /\ cur.start_idx >= 0) =>
                /\ Has(cur.x, "class") /\ cur.x.class = "eb"
                /\ cur.y = Some(R(0))
    /\ (Called /\ config.eb_prob = 0) =>
            (cur.branch # "eb" /\ (Has(cur.x, "class") => cur.x.class # "eb"))

C17_Witness ==
    /\ pc = "ret" /\ ~cur.early /\ cur.y_res = Some(R(0))
    /\ config.synthetic_prob = 0 /\ config.eb_prob = Half /\ cur.rand_num = Half
    /\ cur.branch = "eb" /\ cur.x.class = "eb" /\ cur.y = Some(R(0))
    /\ cur.start_idx >= 0

\* C18: once the flux is None after the synthetic decision (the planet candidates
\* are exhausted, or the resolved flux was None already), the call returns at once
\* with the label None, not the forced 1.0: no noise number is drawn, neither the
\* noise mixer nor the transform runs, and tic_noise is not written.
C18_FailureReturnsAtOnce ==
    (Called /\ ~cur.early /\ FluxIsNone(cur.x)) =>
        /\ pc = "ret"
        /\ cur.y = None
        /\ cur.stages \cap {"noise_draw", "noise", "transform"} = {}
        /\ cur.noise_num = -1 /\ cur.noise_idx = -1
        /\ ~Has(cur.x, "tic_noise")
        /\ cur.exhausted => (cur.branch = "planet" /\ cur.y_res = Some(R(0)))

C18_Witness ==
    /\ pc = "ret" /\ cur.exhausted /\ FluxIsNone(cur.x) /\ cur.y = None
    /\ ~filling_cache /\ cur.hit /\ config.transform /\ config.lc_noise_prob > 0

\* C19: once the constructor has filled the cache (store_cache on, fill mode off),
\* every index 0 .. len(self) - 1 has an entry, the corrupt and the filtered-out
\* ones with the label None, and every call takes the cache-hit branch: it reads
\* no file for its index and never returns at line 167 or 173.
C19_CacheComplete ==
    (config.store_cache /\ ~filling_cache) =>
        /\ DOMAIN cache = 0..(NumFiles - 1)
        /\ \A i \in DOMAIN cache :
              (IsCorrupt(i) \/ (config.vol_negs_only /\ NotZeroLabelStar(i))) =>
                  cache[i][2] = None
        /\ Called => (cur.hit /\ ~cur.early)

C19_Witness ==
    /\ config.store_cache /\ ~filling_cache /\ Cardinality(DOMAIN cache) = NumFiles
    /\ pc = "ret" /\ cur.hit /\ config.vol_negs_only /\ NotZeroLabelStar(cur.idx)
    /\ FluxIsNone(cache[1][1]) /\ cache[1][2] = None

\* the state part of C20
NoiseOnlyOutsideFill ==
    Called =>
        /\ filling_cache =>
              /\ pc # "noise"
              /\ cur.stages \cap {"noise_draw", "noise"} = {}
              /\ cur.noise_num = -1 /\ cur.noise_idx = -1
              /\ Has(cur.x, "tic_noise") => cur.x.tic_noise = -1
              /\ (pc = "ret" /\ ~cur.early /\ ~FluxIsNone(cur.x)) =>
                    Has(cur.x, "tic_noise")
        /\ ~filling_cache =>
              /\ (pc = "ret" /\ ~cur.early /\ ~FluxIsNone(cur.x)) =>
                    "noise_draw" \in cur.stages
              /\ "noise_draw" \in cur.stages =>
                    /\ cur.noise_num \in RandDraws
                    /\ (pc = "noise" \/ "noise" \in cur.stages)
                          <=> cur.noise_num < config.lc_noise_prob
                    /\ (pc = "ret" /\ "noise" \in cur.stages) =>
                          (cur.noise_idx >= 0 /\ cur.x.tic_noise \in zero_tics)
                    /\ (pc = "ret" /\ "noise" \notin cur.stages) =>
                          cur.x.tic_noise = -1
              /\ "noise_draw" \notin cur.stages => (pc # "noise" /\ cur.noise_num = -1)

\* C20: while the constructor fills the cache no call draws the noise number or
\* enters the noise mixer, and every sample that gets as far as the noise stage has
\* tic_noise = -1; the fill mode, once off, stays off, and then every call that
\* gets as far as the noise stage draws a number and mixes noise exactly when the
\* number is below lc_noise_prob.
C20_NoNoiseWhileFilling ==
    /\ []NoiseOnlyOutsideFill
    /\ [][~filling_cache => ~filling_cache']_vars

C20_Witness ==
    /\ config.store_cache /\ ~filling_cache /\ pc = "ret" /\ cur.hit
    /\ cur.noise_num = 0 /\ "noise" \in cur.stages /\ cur.x.tic_noise = 4
    /\ cur.noise_idx = 0

\* C21 as stated: the light curve a call blends into its sample comes from an
\* index other than the one the call serves.
C21_NoiseFromOtherIndex ==
    (Called /\ "noise" \in cur.stages) => cur.noise_idx # cur.idx

\* C22: a sample's tic_noise is other than -1 only after the mixer accepted a
\* candidate index whose flux is present (in its file and in its cache entry) and
\* whose star is in zero_tics, and tic_noise is that star; an index with a corrupt
\* file or a star outside zero_tics is never the one blended.
C22_NoiseCandidateAccepted ==
    /\ (Called /\ Has(cur.x, "tic_noise") /\ cur.x.tic_noise # -1) =>
          /\ "noise" \in cur.stages
          /\ cur.noise_idx \in 0..(NumFiles - 1)
          /\ ~IsCorrupt(cur.noise_idx)
          /\ cur.noise_idx \in DOMAIN cache => ~FluxIsNone(cache[cur.noise_idx][1])
          /\ cur.x.tic_noise = read_lc_csv(cur.noise_idx).tic
          /\ cur.x.tic_noise \in zero_tics
    /\ (Called /\ cur.noise_idx # -1) =>
          (Has(cur.x, "tic_noise") /\ cur.x.tic_noise # -1)

C22_Witness ==
    /\ pc = "ret" /\ "noise" \in cur.stages /\ cur.noise_idx = 4 /\ cur.idx = 2
    /\ cur.x.tic_noise = 8 /\ cur.x.tic_noise \in zero_tics
    /\ cur.x.flux # read_lc_csv(cur.idx).flux

\* the number of gaps of base_flux under the window the call multiplied, and the
\* window's length
WindowGaps ==
    Cardinality({i \in 1..Len(Truncated(inj.base_flux, inj.injected_flux)) :
                    IsNaN(inj.base_flux[inj.start_idx + i])})

WindowLen == Len(Truncated(inj.base_flux, inj.injected_flux))

ReturnsEarly(idx, hit) ==
    ~hit /\ (IsCorrupt(idx) \/ (config.vol_negs_only /\ NotZeroLabelStar(idx)))

\* C24 as stated: every call draws the number of the synthetic decision, on every
\* access path.
C24_EveryCallDraws ==
    Called => ("synth_draw" \in cur.stages /\ cur.rand_num \in RandDraws)

\* C24 amended: a call draws the number of the synthetic decision (once, at line
\* 200) exactly when it does not return at line 167 or 173: every cache hit draws,
\* also on a corrupt or filtered-out index, and so does every cold call on a
\* usable file; the cold call on a corrupt file or a filtered-out star draws none.
C24_DrawUnlessEarly ==
    Called =>
        /\ cur.early <=> ReturnsEarly(cur.idx, cur.hit)
        /\ "synth_draw" \in cur.stages <=> ~cur.early
        /\ ~cur.early => cur.rand_num \in RandDraws
        /\ cur.early => (cur.rand_num = -1 /\ pc = "ret" /\ cur.stages = {})

C24_Witness ==
    /\ pc = "ret" /\ cur.hit /\ IsCorrupt(cur.idx) /\ "synth_draw" \in cur.stages
    /\ cur.rand_num = Quarter /\ \E i \in DOMAIN cache : ~IsCorrupt(i)

\* the rows of the label table for the star and sector of the file of idx
UsableRows(idx) ==
    {r \in labels_df : r.TIC_ID = read_lc_csv(idx).tic /\ r.sector = read_lc_csv(idx).sec}

\* C25: for an index that is neither corrupt nor filtered out, the label the call
\* resolves (cold or from the cache) is the score of the one matching row of the
\* label table, and None when no row matches; in that case, with the cache on, the
\* index is in the cache with its flux and the label None.
C25_LabelJoin ==
    (Called /\ ~IsCorrupt(cur.idx)
       /\ ~(config.vol_negs_only /\ NotZeroLabelStar(cur.idx))) =>
        LET rows == UsableRows(cur.idx)
        IN  /\ ~cur.early
            /\ Cardinality(rows) = 1 =>
                  /\ \A r \in rows : cur.y_res = Some(r.maxdb)
                  /\ Has(cur.x, "toi") /\ Has(cur.x, "ctoi")
            /\ Cardinality(rows) = 0 =>
                  /\ cur.y_res = None
                  /\ ~Has(cur.x, "toi")
                  /\ config.store_cache =>
                        /\ cur.idx \in DOMAIN cache
                        /\ cache[cur.idx][2] = None
                        /\ ~FluxIsNone(cache[cur.idx][1])

C25_Witness ==
    /\ pc = "ret" /\ cur.hit /\ ~IsCorrupt(cur.idx) /\ UsableRows(cur.idx) = {}
    /\ cur.y_res = None /\ cur.y = None /\ cache[cur.idx][2] = None
    /\ ~FluxIsNone(cur.x) /\ ~config.vol_negs_only

\* C26 as stated: collate_fn on a batch none of whose pairs has both flux and
\* label returns an empty batch and does not raise.
C26_EmptyBatchTolerated ==
    (col.pc # "call"
       /\ \A i \in 1..Len(col.batch) :
             col.batch[i][1].flux = None \/ col.batch[i][2] = None) =>
        (col.pc = "done" /\ col.out = <<>>)

\* both providers have taken the same number of steps
InStep == twin.turn = "first" /\ Provider = twin.before

C28_DefaultIsSupported ==
    net # Off =>
        /\ (net.pc = "raised" => ChecksInputDim(net.variant) /\ net.linear_out = None)
        /\ (net.by_default => net.pc = "built")

\* the placement loop of a stand-alone call is running
InPlacementLoop ==
    inj.pc = "call" /\ inj.single_transit /\ Len(inj.base_flux) > 1 /\ WindowLen > 0

\* the starts np.random.randint(0, len(base_flux) - len(injected_flux)) can return
CandidateStarts == RandInt(0, Len(inj.base_flux) - WindowLen)

\* more than 20% of the base points of the window at s are gaps
TooGapped(s) ==
    5 * Cardinality({i \in 1..WindowLen : IsNaN(inj.base_flux[s + i])}) > WindowLen

\* C30: with single_transit the placement loop has no limit on its iterations.
\* When some window the draw can pick is not too gapped, the loop ends, under
\* fair draws, with a window placed; when every window the draw can pick is too
\* gapped, no step ever ends the loop and the call does not return.
C30_PlacementLoop ==
    /\ (InPlacementLoop /\ (\E s \in CandidateStarts : ~TooGapped(s)))
            ~> (inj.pc = "done" /\ ~TooGapped(inj.start_idx))
    /\ [][(InPlacementLoop /\ (\A s \in CandidateStarts : TooGapped(s)))
            => (inj'.pc = "call" /\ inj'.tries >= inj.tries)]_vars

C30_Witness ==
    /\ InPlacementLoop /\ inj.tries = MaxTries
    /\ CandidateStarts # {}
    /\ \A s \in CandidateStarts : TooGapped(s)
    /\ \E i \in 1..Len(inj.base_flux) : ~IsNaN(inj.base_flux[i])

\* C29: the loop of _add_synthetic_transit ends after at most MaxBad + 1
\* candidates, whatever the base sample, the planet store and the draws: every
\* iteration draws one candidate, no iteration starts after MaxBad + 1 draws, and
\* the loop is left in one of two ways: a candidate is accepted, or flux is set
\* to None.
C29_SnrLoopEnds ==
    /\ [](pc = "snr" => cur.ncand <= MaxBad)
    /\ [][pc = "snr" =>
            /\ cur'.ncand = cur.ncand + 1
            /\ pc' # "snr" =>
                  \/ pc' = "place" /\ ~BadSnr(cur'.pl_snr)
                  \/ cur'.exhausted /\ FluxIsNone(cur'.x) /\ cur'.ncand = MaxBad + 1]_vars

\* the light curve of index i of the collection can be blended: its flux is
\* present, its star has a zero label and its median is not close to zero
UsableNoise(i) ==
    LET x == mix.files[i + 1]
    IN  /\ x.flux # None
        /\ x.tic \in zero_tics
        /\ LET m == NanMedian(x.flux.v) IN IsNaN(m) \/ Abs(m[1]) * CloseDen > m[2]

NoiseIndices == 0..(Len(mix.files) - 1)

\* C31: the search of _add_lc_noise has no limit on its iterations.  When the
\* collection holds an index that can be blended, the search ends, under fair
\* draws, with such an index blended; when it holds none, no step ever ends the
\* search and the call does not return.
C31_NoiseSearch ==
    /\ (mix.pc = "call" /\ (\E i \in NoiseIndices : UsableNoise(i)))
            ~> (mix.pc = "done" /\ UsableNoise(mix.noise_idx))
    /\ [][(mix.pc = "call" /\ (\A i \in NoiseIndices : ~UsableNoise(i)))
            => (mix'.pc = "call" /\ mix'.tries >= mix.tries)]_vars

C31_Witness ==
    /\ mix.pc = "call" /\ mix.tries = MaxTries
    /\ Len(mix.files) = MaxColl
    /\ \A i \in NoiseIndices : ~UsableNoise(i)
    /\ \E i \in NoiseIndices : mix.files[i + 1].flux # None /\ mix.files[i + 1].tic \in zero_tics
    /\ \E i \in NoiseIndices : mix.files[i + 1].flux = None

\* the 1-based positions of x below the baseline
Below(x) == {i \in 1..Len(x) : RLt(x[i], R(1))}

\* the first position of x below the baseline, and the first position after it
\* that is not below the baseline (one past the end when there is none)
FirstDip(x) == CHOOSE i \in Below(x) : \A j \in Below(x) : i <= j

DipEnd(x) ==
    LET after == {i \in FirstDip(x)..Len(x) : ~RLt(x[i], R(1))}
    IN  IF after = {} THEN Len(x) + 1 ELSE CHOOSE i \in after : \A j \in after : i <= j

\* C32: the transit extracted is the first run of points below 1 with one point
\* on each side (as far as the flux has them); the run ends at the first later
\* point that is not below 1; a flux with no point below 1 gives no transit.
C32_FirstDipWithBoundaries ==
    ext.pc = "done" =>
        IF Below(ext.x) = {} THEN ext.transit = <<>>
        ELSE LET lo == IF FirstDip(ext.x) > 1 THEN FirstDip(ext.x) - 1 ELSE 1
                 hi == IF DipEnd(ext.x) > Len(ext.x) THEN Len(ext.x) ELSE DipEnd(ext.x)
             IN  ext.transit = SubSeq(ext.x, lo, hi)

\* every record of the two stores passed the tests made when it was loaded
StoresSane ==
    /\ pl_data # None =>
          \A k \in 1..Len(pl_data.v) :
             /\ Len(pl_data.v[k].flux) > 0
             /\ RLe(pl_data.v[k].duration, R(MaxDur))
             /\ IsPlanetInDataSplit(config.data_split, pl_data.v[k].tic_id)
    /\ eb_data # None =>
          \A k \in 1..Len(eb_data.v) :
             /\ Len(eb_data.v[k].flux) > 0
             /\ IsPlanetInDataSplit(config.data_split, eb_data.v[k].tic_id)

\* C33: every planet record held has a non-empty flux and a duration of at most
\* 4, every eclipsing-binary record a non-empty flux, every record a star of the
\* provider's split, and no step of any call changes the stores.
C33_StoresSaneAndFixed ==
    /\ []StoresSane
    /\ [][pl_data' = pl_data /\ eb_data' = eb_data]_vars

C33_Witness ==
    /\ pc = "ret" /\ cur.branch = "planet" /\ "inject" \in cur.stages
    /\ config.single_transit_only /\ eb_data # None
    /\ Len(pl_data.v) > 1 /\ Len(eb_data.v) > 0
    /\ \E j \in 1..Len(PlanetFiles) :
          /\ IsPlanetInDataSplit(config.data_split, PlanetFiles[j].tic_id)
          /\ RLt(R(MaxDur), PlanetFiles[j].duration)
    /\ \E j \in 1..Len(PlanetFiles) :
          /\ IsPlanetInDataSplit(config.data_split, PlanetFiles[j].tic_id)
          /\ Len(PlanetFiles[j].flux) = 0

\* C34: a call that takes the eclipsing-binary branch never raises; it carries
\* a present flux, the label 0.0 and the class eb, its snr stays -1, and the
\* signal is placed at the one start drawn, over gaps too, whatever
\* single_transit_only is.
C34_EbBranchNeverFails ==
    (Called /\ cur.branch = "eb") =>
        /\ pc # "raised"
        /\ ~FluxIsNone(cur.x)
        /\ cur.y = Some(R(0))
        /\ cur.x.class = "eb" /\ cur.x.snr = R(-1)
        /\ cur.stages \cap {"noise", "transform"} = {} =>
              LET base == ResolvedFlux(cur.idx)
                  sig == Truncated(base, eb_data.v[cur.eb_inj].flux)
              IN  cur.x.flux = Some(MulWindow(base, cur.start_idx, sig))

\* both providers have served the same call
BothServed == twin.turn = "plain" /\ pc \in {"ret", "raised"}

\* C35: on the same call and the same draws the plain provider returns what the
\* caching one returned: the same sample with the same fields, the same label,
\* after the same stages and the same draws made.
C35_CachingTransparent ==
    BothServed =>
        /\ pc = twin.other.pc
        /\ cur.x = twin.ref.x
        /\ cur.y = twin.ref.y
        /\ cur.stages = twin.ref.stages
        /\ Drawn(cur) = Drawn(twin.ref)

\* C36: with vol_negs_only set, a sample that passes the filter has the label 0.0
\* or none, and no call returns a sample of class real with a label above zero,
\* also for a star with a zero label in one sector and another label in the
\* sector of the file.
C36_ZeroLabelOnly ==
    (config.vol_negs_only /\ pc = "ret" /\ ~cur.early) =>
        /\ cur.y_res \in {None, Some(R(0))}
        /\ (cur.branch = "real" /\ cur.y # None) => ~RLt(R(0), cur.y.v)

\* the residues mod 4 meant for a provider
Residues(p) == IF p = "train" THEN {0} ELSE IF p = "val" THEN {1} ELSE {2, 3}

\* C37: whatever the suffix of the split names, a provider admits a star to its
\* synthetic stores only when the star's residue mod 4 is one of its split, and
\* no two of the three providers store a record of the same star.
C37_IntendedResidues ==
    (stores.pc = "scan") =>
        /\ \A p \in Providers :
              (stores.done[p] /\ stores.passed[p]) => stores.file.tic_id % 4 \in Residues(p)
        /\ \A p \in Providers : \A q \in Providers \ {p} :
              stores.data[p] = <<>> \/ stores.data[q] = <<>>

\* C38: for a file whose (star id, sector) matches more than one row of the label
\* table, the call resolves no label, as it does when no row matches: it takes
\* neither injection branch and enters no loop, it returns the sample with class
\* real and the label None, and collate_fn drops the pair.
C38_ManyRowsNoLabel ==
    (Called /\ ~IsCorrupt(cur.idx) /\ ~cur.early
       /\ Cardinality(UsableRows(cur.idx)) > 1) =>
        /\ pc = "ret"
        /\ cur.y_res = None /\ cur.y = None
        /\ cur.branch = "real" /\ cur.x.class = "real"
        /\ "inject" \notin cur.stages
        /\ ~Has(cur.x, "toi")
        /\ collate_fn(<<<<cur.x, cur.y>>>>) = DefaultCollate(<<>>)

\* the twice-listed star passes the zero-label filter, and its draw would have
\* taken the planet branch had a label 0.0 been resolved
C38_Witness ==
    /\ pc = "ret" /\ ~cur.early /\ ~IsCorrupt(cur.idx)
    /\ Cardinality(UsableRows(cur.idx)) = 2
    /\ config.vol_negs_only /\ cur.rand_num < config.synthetic_prob
    /\ cur.y = None /\ cur.x.class = "real" /\ ~FluxIsNone(cur.x)

\* C39: a call whose sample has no flux is at its return: it is in neither loop
\* of the planet injector and not in the noise mixer, it has not raised, it made
\* no noise draw and applied neither the noise mixer nor the transform, and it
\* took no injection branch unless the planet injector itself gave the flux up;
\* and the candidate the noise mixer blended has a flux.
C39_NoStageOnAbsentFlux ==
    /\ (Called /\ FluxIsNone(cur.x)) =>
          /\ pc = "ret"
          /\ cur.y = None
          /\ cur.stages \cap {"inject", "noise_draw", "noise", "transform"} = {}
          /\ cur.noise_num = -1 /\ cur.noise_idx = -1
          /\ cur.branch # "eb"
          /\ cur.branch = "planet" => cur.exhausted
          /\ cur.branch = "none" => (cur.early /\ ~cur.hit)
    /\ (Called /\ cur.noise_idx # -1) =>
          /\ ~IsCorrupt(cur.noise_idx)
          /\ cur.noise_idx \in DOMAIN cache => ~FluxIsNone(cache[cur.noise_idx][1])

\* a cache hit on a corrupt file, in a provider that mixes noise and transforms
C39_Witness ==
    /\ pc = "ret" /\ cur.hit /\ IsCorrupt(cur.idx) /\ FluxIsNone(cur.x)
    /\ ~filling_cache /\ config.transform /\ config.lc_noise_prob > 0
    /\ cur.branch = "real" /\ cur.stages = {"synth_draw"}

====
